---- MODULE Spec2Model ----
(***************************************************************************)
(* A model of the price-comparison scraper: the field normalizer           *)
(* (items.py), the category spiders (Phase 1), the product spiders         *)
(* (Phase 2) with the retry middleware, and the item pipelines             *)
(* (dedup, required fields, JSON-lines export).                            *)
(*                                                                         *)
(* Four specifications share the variables below; each one drives one      *)
(* part of the program and leaves the other parts idle:                    *)
(*   SpecPrice  parse_price applied to bounded texts                       *)
(*   SpecCat    a category spider run twice over one seed document         *)
(*   SpecPipe   the item pipelines fed with a bounded stream of items      *)
(*   SpecCrawl  a product spider crawling a small site                     *)
(***************************************************************************)
EXTENDS Integers, Sequences, FiniteSets, Bags, TLC

VARIABLES
    price_text,     \* SpecPrice: the text handed to parse_price
    price_out,      \* SpecPrice: what the call produced ("pending" before it)
    spider,         \* spider.name of the running spider
    seed_doc,       \* SpecCat: the navigation links of the seed document
    cat_run,        \* SpecCat: number of the run in progress (1 or 2)
    cat_pc,         \* SpecCat: "init" | "opened" | "parsed" | "closed"
    seen_urls,      \* SpecCat: the local set of parse()
    cat_yielded,    \* SpecCat: the items parse() yielded in the run in progress
    cat_out,        \* SpecCat: CategoryItems emitted by the run in progress
    cat_prev,       \* SpecCat: the emitted set of the previous run
    keys_seen,      \* DropDuplicatesPipeline.keys_seen
    file_handle,    \* JsonLinesExportPipeline.file_handle: "None" | "open"
    filename,       \* JsonLinesExportPipeline.filename: "None" | "set"
    items_written,  \* JsonLinesExportPipeline.items_written
    out_file,       \* lines written through the file handle in this run
    disk_lines,     \* how many of them have left the buffer of the file object
    log,            \* log records written so far
    produced,       \* history: every item handed to the pipelines, with its fate
    pipe_pc,        \* lifecycle of the pipelines: "init" | "running" | "closed" | "killed"
    category_file,  \* SpecCrawl: the category file Phase 2 reads
    item_limit,     \* SpecCrawl: CLOSESPIDER_ITEMCOUNT of the run (0: no ceiling)
    started,        \* SpecCrawl: start_requests has run
    queue,          \* SpecCrawl: requests waiting in the scheduler
    inflight,       \* SpecCrawl: requests being downloaded
    df_seen,        \* SpecCrawl: URLs the scheduler's duplicate filter has seen
    submitted,      \* SpecCrawl history: every request a callback yielded
    handled,        \* SpecCrawl history: every request that got its final answer
    accepted,       \* SpecCrawl history: bag of the URLs of the spider's requests
                    \* the scheduler accepted
    failures,       \* SpecCrawl: failed downloads so far
    clock,          \* SpecRuns: the wall clock, in ticks
    runs,           \* SpecRuns: the runs started so far, each with its file name
    fs,             \* SpecRuns: the output directory, file name to lines
    table_doc,      \* SpecTable: the specification block of a product page
    table_out,      \* SpecTable: the specifications extracted from it
    dl_req,         \* SpecDownload: the request in the downloader middlewares
    dl_pc,          \* SpecDownload: "idle" | "pending" | "callback" | "errback"
    cache,          \* SpecDownload: the status the HTTP cache holds for the URL
    attempts        \* SpecDownload history: what each attempt met and what followed

vars == <<price_text, price_out, spider, seed_doc, cat_run, cat_pc, seen_urls,
          cat_yielded, cat_out, cat_prev, keys_seen, file_handle, filename, items_written,
          out_file, disk_lines, log, produced, pipe_pc, category_file, started, queue,
          inflight, df_seen, submitted, handled, accepted, failures, clock, runs,
          fs, table_doc, table_out, item_limit, dl_req, dl_pc, cache, attempts>>

priceVars == <<price_text, price_out>>
catVars   == <<seed_doc, cat_run, cat_pc, seen_urls, cat_yielded, cat_out, cat_prev>>
pipeVars  == <<keys_seen, file_handle, filename, items_written, out_file, disk_lines,
               produced, pipe_pc>>
crawlVars == <<category_file, item_limit, started, queue, inflight, df_seen, submitted, handled,
               accepted, failures>>
runVars   == <<clock, runs, fs>>
tableVars == <<table_doc, table_out>>
dlVars    == <<dl_req, dl_pc, cache, attempts>>

----------------------------------------------------------------------------
(* Bounds of the model                                                     *)

MaxLen == 3          \* longest price text
MaxLinks == 3        \* most navigation links in a seed document
MaxItems == 3        \* most items fed to the pipelines in SpecPipe
RetryTimes == 2      \* the retry count the middleware is configured with
MaxInFlight == 1     \* most requests downloaded at once
MaxFailures == 3     \* most failed downloads in one crawl
MaxClock == 3        \* SpecRuns: the last tick of the wall clock
MaxRuns == 2         \* SpecRuns: most runs started
MaxRunLines == 1     \* SpecRuns: most lines one run writes
TicksPerSecond == 2  \* SpecRuns: ticks of the wall clock in one second
MaxElements == 4     \* SpecTable: most elements of a specification block
MaxStartLines == 3   \* SpecStart: most lines of a category file

----------------------------------------------------------------------------
(* Python values                                                           *)

\* A Python float-or-None, always a record of the same shape.
NoneFloat == [kind |-> "None", num |-> 0, exp |-> 0]
\* The float num / 10^exp.
Float(n, e) == [kind |-> "float", num |-> n, exp |-> e]
\* What a call leaves behind when an exception escapes it.
Raised == [kind |-> "raise", num |-> 0, exp |-> 0]

RECURSIVE SeqCount(_, _)
SeqCount(s, c) ==
    IF s = <<>> THEN 0
    ELSE (IF Head(s) = c THEN 1 ELSE 0) + SeqCount(Tail(s), c)

----------------------------------------------------------------------------
(* items.py: parse_price                                                   *)

\* The characters of the bounded price texts: two digits, the decimal
\* point, a grouping comma and a letter.
PriceChars == {"0", "5", ".", ",", "C"}
IsDigit(c) == c \in {"0", "5"}
DigitVal(c) == IF c = "5" THEN 5 ELSE 0

\* re.sub(r"[^\d.]", "", text)
StripNonPrice(text) == SelectSeq(text, LAMBDA c : IsDigit(c) \/ c = ".")

RECURSIVE DigitsValue(_)
DigitsValue(s) ==
    IF s = <<>> THEN 0
    ELSE DigitsValue(SubSeq(s, 1, Len(s) - 1)) * 10 + DigitVal(s[Len(s)])

RECURSIVE DigitsAfterDot(_)
DigitsAfterDot(s) ==
    IF s = <<>> THEN 0
    ELSE IF s[Len(s)] = "." THEN 0
    ELSE 1 + DigitsAfterDot(SubSeq(s, 1, Len(s) - 1))

\* float(cleaned) for a text of digits and at most one decimal point:
\* a text without any digit is a ValueError.
PyFloat(cleaned) ==
    IF SelectSeq(cleaned, IsDigit) = <<>> THEN Raised
    ELSE Float(DigitsValue(SelectSeq(cleaned, IsDigit)),
               IF SeqCount(cleaned, ".") = 0 THEN 0 ELSE DigitsAfterDot(cleaned))

\* parse_price without its except clause: the ValueError escapes.
parse_price_no_except(text) ==
    IF text = <<>> THEN NoneFloat
    ELSE LET cleaned_text == StripNonPrice(text) IN
         IF cleaned_text = <<>> \/ SeqCount(cleaned_text, ".") > 1 THEN NoneFloat
         ELSE LET price == PyFloat(cleaned_text) IN
              IF price = Raised THEN Raised
              ELSE IF price.num > 0 THEN price ELSE NoneFloat

parse_price(text) ==
    IF text = <<>> THEN NoneFloat
    ELSE LET cleaned_text == StripNonPrice(text) IN
         IF cleaned_text = <<>> \/ SeqCount(cleaned_text, ".") > 1 THEN NoneFloat
         ELSE LET price == PyFloat(cleaned_text) IN
              IF price = Raised THEN NoneFloat      \* except (ValueError, TypeError)
              ELSE IF price.num > 0 THEN price ELSE NoneFloat

RECURSIVE TextsUpTo(_)
TextsUpTo(n) ==
    IF n = 0 THEN {<<>>}
    ELSE LET shorter == TextsUpTo(n - 1) IN
         shorter \cup {Append(t, c) : t \in {s \in shorter : Len(s) = n - 1},
                                      c \in PriceChars}

----------------------------------------------------------------------------
(* items.py: clean_text, and the item loader's processors                  *)

\* A text is a sequence of characters; " " stands for any whitespace.
IsSpace(c) == c = " "

\* str.split(): the maximal runs of non-whitespace characters.
RECURSIVE SplitWords(_, _)
SplitWords(text, word) ==
    IF text = <<>> THEN (IF word = <<>> THEN <<>> ELSE <<word>>)
    ELSE IF IsSpace(Head(text))
         THEN (IF word = <<>> THEN <<>> ELSE <<word>>) \o SplitWords(Tail(text), <<>>)
         ELSE SplitWords(Tail(text), Append(word, Head(text)))

\* " ".join(words)
RECURSIVE JoinWords(_)
JoinWords(words) ==
    IF words = <<>> THEN <<>>
    ELSE IF Len(words) = 1 THEN words[1]
    ELSE words[1] \o <<" ">> \o JoinWords(Tail(words))

\* clean_text: a falsy text passes through, any other text has its
\* whitespace collapsed and its ends trimmed.
clean_text(text) ==
    IF text = <<>> THEN text ELSE JoinWords(SplitWords(text, <<>>))

\* TakeFirst(): the first value that is neither None nor "", else nothing
\* (the field stays unset; <<>> stands for the unset field).
RECURSIVE TakeFirst(_)
TakeFirst(values) ==
    IF values = <<>> THEN <<>>
    ELSE IF Head(values) # <<>> THEN Head(values)
    ELSE TakeFirst(Tail(values))

\* MapCompose(remove_tags, clean_text) over the text nodes of a selector
\* (text nodes carry no tags, so remove_tags leaves them as they are).
MapCleanText(nodes) == [i \in 1..Len(nodes) |-> clean_text(nodes[i])]

----------------------------------------------------------------------------
(* URLs: urljoin and urlparse                                              *)

\* An absolute URL: host, path as the segments after each "/" (<<>> is the
\* empty path "", <<"">> is "/"), and fragment ("" when there is none).
Url(h, p, f) == [host |-> h, path |-> p, frag |-> f]
\* The value of a URL field that is None or "".
NoUrl == Url("", <<>>, "")

\* An href attribute: host "" for a relative reference; frag "none" when the
\* href has no "#", "empty" for a bare "#", else the fragment text.
Href(h, p, f) == [host |-> h, path |-> p, frag |-> f]
HrefIsEmpty(href) == href = Href("", <<>>, "none")          \* not relative_url
HrefIsHash(href) == href = Href("", <<>>, "empty")          \* strip() == "#"

\* response.urljoin(href): an href with a host replaces the base, an href
\* without a path keeps the base path, an empty fragment is dropped.
urljoin(base, href) ==
    LET f == IF href.frag \in {"none", "empty"} THEN "" ELSE href.frag IN
    IF href.host # "" THEN Url(href.host, href.path, f)
    ELSE IF href.path = <<>> THEN Url(base.host, base.path, f)
    ELSE Url(base.host, href.path, f)

\* urlparse(url).path
urlparse_path(url) == url.path

RyansHost == "www.ryans.com"
StartechHost == "www.startech.com.bd"

----------------------------------------------------------------------------
(* pipelines.py: DropDuplicatesPipeline                                    *)

DUPLICATE_KEY_FIELD_MAP ==
    [ryans_categories |-> "category_url",
     ryans_product_details |-> "url",
     startech_categories |-> "category_url",
     startech_product_details |-> "url"]

\* A log record.
LogRec(lvl, src, what, fields, url) ==
    [level |-> lvl, by |-> src, what |-> what, fields |-> fields, url |-> url]

\* process_item with the membership test left out: nothing is ever dropped.
DropDuplicates_no_check(ks, sp, item) ==
    IF sp \notin DOMAIN DUPLICATE_KEY_FIELD_MAP
    THEN [drop |-> FALSE, keys |-> ks, log |-> <<>>]
    ELSE LET key_field == DUPLICATE_KEY_FIELD_MAP[sp]
             key_value == item[key_field]
         IN  IF key_value = NoUrl
             THEN [drop |-> FALSE, keys |-> ks, log |-> <<>>]
             ELSE [drop |-> FALSE, keys |-> ks \cup {<<key_field, key_value>>},
                   log |-> <<>>]

\* DropDuplicatesPipeline.process_item(item, spider) on the key set ks:
\* whether DropItem is raised, the key set afterwards, and what is logged.
DropDuplicates_process_item(ks, sp, item) ==
    IF sp \notin DOMAIN DUPLICATE_KEY_FIELD_MAP
    THEN [drop |-> FALSE, keys |-> ks, log |-> <<>>]
    ELSE LET key_field == DUPLICATE_KEY_FIELD_MAP[sp]
             key_value == item[key_field]
         IN  IF key_value = NoUrl
             THEN [drop |-> FALSE, keys |-> ks,
                   log |-> <<LogRec("warning", "DropDuplicatesPipeline",
                                    "missing key", <<key_field>>, NoUrl)>>]
             ELSE IF <<key_field, key_value>> \in ks
             THEN [drop |-> TRUE, keys |-> ks,
                   log |-> <<LogRec("warning", "DropDuplicatesPipeline",
                                    "DROP DUPLICATE", <<key_field>>, key_value)>>]
             ELSE [drop |-> FALSE, keys |-> ks \cup {<<key_field, key_value>>},
                   log |-> <<>>]

----------------------------------------------------------------------------
(* Product items                                                           *)

ProductSpiders == {"ryans_product_details", "startech_product_details"}

\* A text field that was never set (adapter.get(field) is None).
Absent == "<absent>"

\* The values of the specifications field: None (or unset), a dict of
\* section -> (key -> value), or a value that is no dict.
EmptyDict == [x \in {} |-> 0]
SpecNone == [kind |-> "None", val |-> EmptyDict]
SpecOther == [kind |-> "other", val |-> EmptyDict]
SpecDict(d) == [kind |-> "dict", val |-> d]

\* RyansProductDetailItem / StartechProductDetailItem: the Ryans item has a
\* sku, the Startech item a product_code.
ProductItem(sp, name, price, url, code, availability, brand, specs, category) ==
    IF sp = "ryans_product_details"
    THEN [name |-> name, price |-> price, url |-> url, sku |-> code,
          availability |-> availability, brand |-> brand,
          specifications |-> specs, category |-> category]
    ELSE [name |-> name, price |-> price, url |-> url, product_code |-> code,
          availability |-> availability, brand |-> brand,
          specifications |-> specs, category |-> category]

\* Python truthiness of adapter.get(field): None, "", 0 and 0.0 are falsy.
Falsy(item, field) ==
    IF field = "price" THEN item.price.kind = "None" \/ item.price.num = 0
    ELSE IF field \in {"url", "category_url"} THEN item[field] = NoUrl
    ELSE item[field] \in {Absent, ""}

----------------------------------------------------------------------------
(* pipelines.py: RequiredFieldsPipeline                                    *)

ESSENTIAL_FIELDS_MAP ==
    [ryans_product_details |->
         <<"name", "price", "url", "sku", "availability", "brand">>,
     startech_product_details |->
         <<"name", "price", "url", "availability", "product_code", "brand">>]

IMPORTANT_FIELDS_MAP ==
    [ryans_product_details |-> <<"specifications">>,
     startech_product_details |-> <<"specifications">>]

\* ESSENTIAL_FIELDS_MAP.get(spider.name, [])
EssentialFields(sp) ==
    IF sp \in DOMAIN ESSENTIAL_FIELDS_MAP THEN ESSENTIAL_FIELDS_MAP[sp] ELSE <<>>
ImportantFields(sp) ==
    IF sp \in DOMAIN IMPORTANT_FIELDS_MAP THEN IMPORTANT_FIELDS_MAP[sp] ELSE <<>>

\* missing_essential without the separate price test.
MissingEssential_no_price_test(sp, item) ==
    SelectSeq(EssentialFields(sp), LAMBDA f : Falsy(item, f))

\* missing_essential: the falsy essential fields in list order, then the
\* price entry when the price is None or not positive.
MissingEssential(sp, item) ==
    LET essential_fields == EssentialFields(sp)
        falsy == SelectSeq(essential_fields, LAMBDA f : Falsy(item, f))
    IN  IF /\ \E i \in DOMAIN essential_fields : essential_fields[i] = "price"
           /\ (item.price.kind = "None" \/ item.price.num <= 0)
        THEN Append(falsy, "price (invalid/missing)")
        ELSE falsy

\* missing_important: one entry per important field that is None, no dict,
\* or an empty dict.
MissingImportant(sp, item) ==
    LET important_fields == ImportantFields(sp)
        Entry(f) ==
            IF item[f].kind = "None" THEN <<f, "None">>
            ELSE IF f = "specifications" /\ item[f].kind # "dict" THEN <<f, "not dict">>
            ELSE IF f = "specifications" /\ DOMAIN item[f].val = {}
                 THEN <<f, "empty dict">>
            ELSE <<>>
        all == [i \in DOMAIN important_fields |-> Entry(important_fields[i])]
    IN  SelectSeq(all, LAMBDA e : e # <<>>)

ItemKey(item) == item.url

\* The important-field check that warns and leaves the item as it is.
KeepSpecifications(item, missing_important) == item

\* The item after the important-field check: adapter["specifications"] = None
\* when specifications failed it.
ForceSpecificationsNone(item, missing_important) ==
    IF \E i \in DOMAIN missing_important : missing_important[i][1] = "specifications"
    THEN [item EXCEPT !.specifications = SpecNone]
    ELSE item

\* RequiredFieldsPipeline.process_item(item, spider): whether DropItem is
\* raised, the item returned, and what is logged.
RequiredFields_process_item(sp, item) ==
    LET missing_essential == MissingEssential(sp, item) IN
    IF missing_essential # <<>>
    THEN [drop |-> TRUE, item |-> item,
          log |-> <<LogRec("warning", "RequiredFieldsPipeline", "DROP",
                           missing_essential, ItemKey(item))>>]
    ELSE LET missing_important == MissingImportant(sp, item) IN
         IF missing_important # <<>>
         THEN [drop |-> FALSE,
               item |-> ForceSpecificationsNone(item, missing_important),
               log |-> <<LogRec("warning", "RequiredFieldsPipeline", "WARN",
                                [i \in DOMAIN missing_important |->
                                     missing_important[i][1]], ItemKey(item))>>]
         ELSE [drop |-> FALSE, item |-> item, log |-> <<>>]

----------------------------------------------------------------------------
(* pipelines.py: JsonLinesExportPipeline                                   *)

\* The fields whose value is a text (a Python str, or unset).
TextFields == {"name", "sku", "product_code", "availability", "brand", "category"}

\* ItemAdapter(item).asdict() and json.dumps: the JSON object holds the
\* fields that are set; None becomes null, a float a number, a dict an object.
JsonValue(field, v) ==
    IF field = "price"
    THEN (IF v.kind = "None" THEN [v EXCEPT !.kind = "null"]
          ELSE [v EXCEPT !.kind = "number"])
    ELSE IF field = "specifications"
    THEN (IF v.kind = "None" THEN [v EXCEPT !.kind = "null"]
          ELSE [v EXCEPT !.kind = "object"])
    ELSE v
json_dumps(item) ==
    LET set_fields == {f \in DOMAIN item : ~(f \in TextFields /\ item[f] = Absent)} IN
    [f \in set_fields |-> JsonValue(f, item[f])]

\* A value json.dumps has no encoding for (bytes, a set, a datetime), here in
\* a text field.
Bytes == "<bytes>"
Serializable(item) == \A f \in DOMAIN item \cap TextFields : item[f] # Bytes

\* A serializer that writes any value as text (json.dumps(..., default=str)).
serialize_item_default_str(item) == [kind |-> "str", line |-> json_dumps(item)]
\* _serialize_item(item): the JSON text, or None after logging the TypeError.
serialize_item(item) ==
    IF Serializable(item) THEN [kind |-> "str", line |-> json_dumps(item)]
    ELSE [kind |-> "None", line |-> <<>>]

\* process_item without the test of the file handle: the line is written
\* whether or not the file is open.
JsonLinesExport_no_handle_test(fh, fname, item, write_ok) ==
    LET json_string == serialize_item(item) IN
    IF json_string.kind = "None" \/ ~write_ok
    THEN [item |-> item, lines |-> <<>>, written |-> 0, log |-> <<>>]
    ELSE [item |-> item, lines |-> <<json_string.line>>, written |-> 1, log |-> <<>>]

\* JsonLinesExportPipeline.process_item(item, spider) with file handle fh and
\* the outcome of file.write (write_ok): the lines appended, the increment of
\* items_written, and what is logged.
JsonLinesExport_process_item(fh, fname, item, write_ok) ==
    IF fh # "open"
    THEN [item |-> item, lines |-> <<>>, written |-> 0,
          log |-> IF fname # "None"
                  THEN <<LogRec("warning", "JsonLinesExportPipeline", "not open",
                                <<>>, ItemKey(item))>>
                  ELSE <<>>]
    ELSE LET json_string == serialize_item(item) IN
         IF json_string.kind = "None"
         THEN [item |-> item, lines |-> <<>>, written |-> 0,
               log |-> <<LogRec("error", "JsonLinesExportPipeline",
                                "serialize failed", <<>>, ItemKey(item))>>]
         ELSE IF write_ok
         THEN [item |-> item, lines |-> <<json_string.line>>, written |-> 1,
               log |-> <<>>]
         ELSE [item |-> item, lines |-> <<>>, written |-> 0,
               log |-> <<LogRec("error", "JsonLinesExportPipeline", "write failed",
                                <<>>, ItemKey(item))>>]

----------------------------------------------------------------------------
(* ITEM_PIPELINES (settings.py): the chain an item goes through             *)

\* The pipelines in the order of their ITEM_PIPELINES numbers
\* (DropDuplicatesPipeline 100, RequiredFieldsPipeline 200,
\* JsonLinesExportPipeline 800): the fate of the item, the item the sink
\* gets, the key set afterwards, the lines appended and the log.
ItemPipelines(sp, item, ks, fh, fname, write_ok) ==
    LET d == DropDuplicates_process_item(ks, sp, item) IN
    IF d.drop
    THEN [fate |-> "duplicate", item |-> item, keys |-> d.keys, lines |-> <<>>,
          written |-> 0, log |-> d.log]
    ELSE LET r == RequiredFields_process_item(sp, item) IN
         IF r.drop
         THEN [fate |-> "invalid", item |-> item, keys |-> d.keys, lines |-> <<>>,
               written |-> 0, log |-> d.log \o r.log]
         ELSE LET e == JsonLinesExport_process_item(fh, fname, r.item, write_ok) IN
              [fate |-> "forwarded", item |-> e.item, keys |-> d.keys,
               lines |-> e.lines, written |-> e.written,
               log |-> d.log \o r.log \o e.log]

----------------------------------------------------------------------------
(* ryans_scraper/pipelines.py: the pipelines of the earlier project        *)

LegacySpiders == {"ryans_laptops_lite"}

\* LaptopItem, with the price still the cleaned price text.
LaptopItem(url, price) == [url |-> url, price |-> price]

\* float(price_str) of a cleaned price text: a ValueError unless the text is
\* digits with at most one decimal point.
LegacyFloat(price_str) ==
    IF StripNonPrice(price_str) # price_str \/ SeqCount(price_str, ".") > 1
    THEN Raised
    ELSE PyFloat(price_str)

\* LaptopValidationPipeline._validate_price
validate_price(item) ==
    IF item.price = <<>> THEN [item EXCEPT !.price = NoneFloat]
    ELSE LET f == LegacyFloat(item.price) IN
         [item EXCEPT !.price = IF f = Raised THEN NoneFloat ELSE f]

\* LaptopValidationPipeline.process_item on the set seen of seen URLs:
\* a missing URL and a seen URL raise DropItem.
LaptopValidation_process_item(seen, item) ==
    IF item.url = NoUrl
    THEN [drop |-> TRUE, why |-> "invalid", keys |-> seen, item |-> item]
    ELSE IF item.url \in seen
    THEN [drop |-> TRUE, why |-> "duplicate", keys |-> seen, item |-> item]
    ELSE [drop |-> FALSE, why |-> "", keys |-> seen \cup {item.url},
          item |-> validate_price(item)]

\* ryans_scraper JsonLinesExportPipeline.process_item: no counter.
LegacyExport_process_item(fh, item, write_ok) ==
    IF fh # "open"
    THEN [lines |-> <<>>,
          log |-> <<LogRec("warning", "JsonLinesExportPipeline", "not open",
                           <<>>, item.url)>>]
    ELSE IF write_ok
    THEN [lines |-> <<[url |-> item.url,
                       price |-> JsonValue("price", item.price)]>>,
          log |-> <<>>]
    ELSE [lines |-> <<>>,
          log |-> <<LogRec("error", "JsonLinesExportPipeline", "write failed",
                           <<>>, item.url)>>]

\* ITEM_PIPELINES of ryans_scraper: LaptopValidationPipeline 300,
\* JsonLinesExportPipeline 400.
LegacyPipelines(item, seen, fh, write_ok) ==
    LET v == LaptopValidation_process_item(seen, item) IN
    IF v.drop
    THEN [fate |-> v.why, item |-> item, keys |-> v.keys, lines |-> <<>>,
          written |-> 0, log |-> <<>>]
    ELSE LET e == LegacyExport_process_item(fh, v.item, write_ok) IN
         [fate |-> "forwarded", item |-> v.item, keys |-> v.keys,
          lines |-> e.lines, written |-> 0, log |-> e.log]

\* custom_settings of the category spiders: DropDuplicatesPipeline only,
\* then the jsonlines feed.
CategoryPipelines(sp, item, ks) ==
    LET d == DropDuplicates_process_item(ks, sp, item) IN
    IF d.drop
    THEN [fate |-> "duplicate", item |-> item, keys |-> d.keys, lines |-> <<>>,
          written |-> 0, log |-> d.log]
    ELSE [fate |-> "forwarded", item |-> item, keys |-> d.keys,
          lines |-> <<item>>, written |-> 0, log |-> d.log]

----------------------------------------------------------------------------
(* spiders/ryans_categories.py, spiders/startech_categories.py: Phase 1    *)

CategorySpiders == {"ryans_categories", "startech_categories"}

\* The category spider of the earlier project (ryans_scraper), which has
\* the spider name ryans_categories too.
LegacyCategorySpiders == {"ryans_scraper.ryans_categories"}

\* start_urls[0], which is also response.url of the seed document.
start_url(sp) ==
    IF sp \in {"ryans_categories"} \cup LegacyCategorySpiders THEN Url(RyansHost, <<"">>, "")
    ELSE Url(StartechHost, <<"">>, "")

\* RyansCategoriesSpider.ignored_paths = {"/", ""}
ignored_paths == {<<"">>, <<>>}

\* A navigation link: its href attribute and its text nodes.
Link(h, t) == [href |-> h, text |-> t]

CategoryItem(name, url) == [category_name |-> name, category_url |-> url]

\* loader.add_css("category_name", "::text"); load_item()
LoadCategoryName(link) == TakeFirst(MapCleanText(link.text))

\* A parse() that never looks into seen_urls.
RyansRejects_no_seen(link, response_url, seen) ==
    \/ HrefIsEmpty(link.href) \/ HrefIsHash(link.href)
    \/ LET absolute_url == urljoin(response_url, link.href) IN
           \/ urlparse_path(absolute_url) \in ignored_paths
           \/ absolute_url = response_url
\* RyansCategoriesSpider.parse, one link: is the link skipped before the
\* item is loaded?
RyansRejects(link, response_url, seen) ==
    \/ HrefIsEmpty(link.href) \/ HrefIsHash(link.href)
    \/ LET absolute_url == urljoin(response_url, link.href) IN
           \/ absolute_url \in seen
           \/ urlparse_path(absolute_url) \in ignored_paths
           \/ absolute_url = response_url

\* StartechCategoriesSpider.parse, one link: only "#" and seen URLs are skipped.
StartechRejects(link, response_url, seen) ==
    \/ HrefIsEmpty(link.href) \/ HrefIsHash(link.href)
    \/ urljoin(response_url, link.href) \in seen

\* The loop of parse(response) over the link selectors, from the local set
\* `seen`: the set at the end and the items yielded, in order.
RECURSIVE ParseLinks(_, _, _, _, _)
ParseLinks(sp, links, response_url, seen, yielded) ==
    IF links = <<>> THEN [seen |-> seen, yielded |-> yielded]
    ELSE LET link == Head(links)
             rejected == IF sp = "ryans_categories"
                         THEN RyansRejects(link, response_url, seen)
                         ELSE StartechRejects(link, response_url, seen)
             absolute_url == urljoin(response_url, link.href)
             name == LoadCategoryName(link)
         IN  IF rejected \/ name = <<>> \/ absolute_url = NoUrl
             THEN ParseLinks(sp, Tail(links), response_url, seen, yielded)
             ELSE ParseLinks(sp, Tail(links), response_url,
                             seen \cup {absolute_url},
                             Append(yielded, CategoryItem(name, absolute_url)))

\* str.strip()
RECURSIVE Strip(_)
Strip(text) ==
    IF text = <<>> THEN <<>>
    ELSE IF IsSpace(Head(text)) THEN Strip(Tail(text))
    ELSE IF IsSpace(text[Len(text)]) THEN Strip(SubSeq(text, 1, Len(text) - 1))
    ELSE text

\* The parse() of the earlier project, one link: the name is the first text
\* node, stripped.
LegacyName(link) == IF link.text = <<>> THEN <<>> ELSE Strip(link.text[1])
LegacyRejects(link, response_url, seen) ==
    \/ HrefIsEmpty(link.href) \/ LegacyName(link) = <<>> \/ HrefIsHash(link.href)
    \/ LET absolute_url == urljoin(response_url, link.href) IN
           \/ urlparse_path(absolute_url) \in ignored_paths
           \/ absolute_url = response_url
           \/ absolute_url \in seen

\* The loop of that parse(): the items are dicts of the stripped name (the
\* whitespace inside a name of the model is blanks, which the
\* replace("\n", "") and replace("\t", "") leave alone) and the URL.
RECURSIVE LegacyParseLinks(_, _, _, _)
LegacyParseLinks(links, response_url, seen, yielded) ==
    IF links = <<>> THEN [seen |-> seen, yielded |-> yielded]
    ELSE LET link == Head(links)
             absolute_url == urljoin(response_url, link.href)
         IN  IF LegacyRejects(link, response_url, seen)
             THEN LegacyParseLinks(Tail(links), response_url, seen, yielded)
             ELSE LegacyParseLinks(Tail(links), response_url, seen \cup {absolute_url},
                      Append(yielded, CategoryItem(LegacyName(link), absolute_url)))

\* The item pipelines of the earlier project: LaptopValidationPipeline
\* drops every item without a "url" field, which a category dict never has.
LegacyFeedItems(items) == SelectSeq(items, LAMBDA item : "url" \in DOMAIN item)

\* A set that outlives the call (a class attribute instead of a local).
StaleSeenUrls(old) == old
\* seen_urls = set() at the top of parse().
FreshSeenUrls(old) == {}

\* The yielded items go through the item pipelines of the category spiders
\* (DropDuplicatesPipeline only) into the feed.
RECURSIVE FeedItems(_, _, _, _)
FeedItems(sp, items, ks, fed) ==
    IF items = <<>> THEN [keys |-> ks, fed |-> fed]
    ELSE LET r == DropDuplicates_process_item(ks, sp, Head(items)) IN
         FeedItems(sp, Tail(items), r.keys,
                   IF r.drop THEN fed ELSE Append(fed, Head(items)))

----------------------------------------------------------------------------
(* The site a product spider crawls                                        *)

SiteHost(sp) == IF sp = "ryans_product_details" THEN RyansHost ELSE StartechHost

CatUrl(sp, k) == Url(SiteHost(sp), <<"category", k>>, "")
ProdUrl(sp, k) == Url(SiteHost(sp), <<"p", k>>, "")

\* A fetched document, as the selectors of the spider see it.
\*   is_text: a text response (response.css raises on any other response)
\*   links, next: the product links and the next-page link of a category page
\*   name .. specs: the matches on a product page; has_description: the page
\*   has a description section
Page(is_text, links, next, name, price_texts, brand, code, status_text, has_description, specs) ==
    [is_text |-> is_text, links |-> links, next |-> next, name |-> name,
     price_texts |-> price_texts, brand |-> brand, code |-> code,
     status_text |-> status_text, has_description |-> has_description,
     specs |-> specs]

CategoryPage(links, next) ==
    Page(TRUE, links, next, Absent, <<>>, Absent, Absent, Absent, FALSE, SpecNone)
ProductPage(name, price_texts, has_description, specs) ==
    Page(TRUE, <<>>, <<>>, name, price_texts, "B", "C", "In Stock",
         has_description, specs)
BinaryPage ==
    Page(FALSE, <<>>, <<>>, Absent, <<>>, Absent, Absent, Absent, FALSE, SpecNone)

HrefTo(url) == Href("", url.path, "none")

\* The site: category A has two pages chained by a next link, the first
\* listing one product twice; category B has one page whose next link leads
\* back to itself; category C answers with a document that is no text.
\* Product 1 is complete, product 2 has a description section, product 3
\* shows "Call for Price" (here "C,") and no specification table.
PageAt(sp, url) ==
    IF url = CatUrl(sp, "a1")
    THEN CategoryPage(<<HrefTo(ProdUrl(sp, "1")), HrefTo(ProdUrl(sp, "2")),
                        HrefTo(ProdUrl(sp, "1"))>>, <<HrefTo(CatUrl(sp, "a2"))>>)
    ELSE IF url = CatUrl(sp, "a2")
    THEN CategoryPage(<<HrefTo(ProdUrl(sp, "2")), HrefTo(ProdUrl(sp, "3"))>>, <<>>)
    ELSE IF url = CatUrl(sp, "b1")
    THEN CategoryPage(<<HrefTo(ProdUrl(sp, "3"))>>, <<HrefTo(CatUrl(sp, "b1"))>>)
    ELSE IF url = ProdUrl(sp, "1")
    THEN ProductPage("N1", << <<"5", ",", "0">> >>, FALSE,
                     SpecDict([General |-> [k1 |-> "v1"]]))
    ELSE IF url = ProdUrl(sp, "2")
    THEN ProductPage("N2", << <<"5">> >>, TRUE, SpecDict([General |-> [k1 |-> "v1"]]))
    ELSE IF url = ProdUrl(sp, "3")
    THEN ProductPage("N3", << <<"C", ",">>, <<"0">> >>, FALSE, SpecNone)
    ELSE BinaryPage

----------------------------------------------------------------------------
(* The scheduler and its duplicate filter (Scrapy's defaults; settings.py  *)
(* sets no DUPEFILTER_CLASS), as the spiders' requests meet them             *)

\* A request: url, callback, meta["category_name"], meta["retry_times"];
\* root is history: the URL of the first page of the category chain that
\* led to the request.
Request(url, cb, name, rt, root) ==
    [url |-> url, callback |-> cb, category_name |-> name, retry_times |-> rt,
     root |-> root]

\* The requests of a callback reach the scheduler in order: a request whose
\* URL the filter has seen is discarded unless it says dont_filter.
RECURSIVE Enqueue(_, _, _, _)
Enqueue(reqs, dont_filter, q, seen) ==
    IF reqs = <<>> THEN [queue |-> q, seen |-> seen, accepted |-> EmptyBag]
    ELSE LET r == Head(reqs) IN
         IF ~dont_filter /\ r.url \in seen
         THEN Enqueue(Tail(reqs), dont_filter, q, seen)
         ELSE LET e == Enqueue(Tail(reqs), dont_filter, q \cup {r},
                               IF dont_filter THEN seen ELSE seen \cup {r.url})
              IN  [e EXCEPT !.accepted = @ (+) SetToBag({r.url})]

----------------------------------------------------------------------------
(* spiders/*_product_details.py: Phase 2                                    *)

\* A line of the category file: a JSON object with the two keys (either may
\* be missing), text that is no JSON ("garbage"), or JSON that is no object
\* ("array").
Line(kind, name, url) == [kind |-> kind, category_name |-> name, category_url |-> url]

\* cat_url.startswith("https://www.ryans.com/category/")
RyansCategoryPrefix(url) ==
    url.host = RyansHost /\ Len(url.path) >= 2 /\ url.path[1] = "category"

\* A host of another site whose name holds the text "startech.com.bd".
LookalikeHost == "www.startech.com.bd.evil.example"
OtherHost == "evil.example"

\* self.allowed_domains[0] in cat_url: "startech.com.bd" occurs in the text
\* of the URL, in the host or after it.
StartechDomainIn(url) ==
    \/ url.host \in {"startech.com.bd", StartechHost, LookalikeHost}
    \/ \E i \in DOMAIN url.path : url.path[i] = "startech.com.bd"

\* The validation of one line in start_requests.
ValidCategoryLine(sp, line) ==
    /\ line.kind = "object"
    /\ line.category_url # NoUrl
    /\ IF sp = "ryans_product_details" THEN RyansCategoryPrefix(line.category_url)
       ELSE StartechDomainIn(line.category_url)

\* f"Unknown Category Line {line_num}" for the lines of the bounded files.
UnknownCategoryLine ==
    <<"Unknown Category Line 1", "Unknown Category Line 2", "Unknown Category Line 3",
      "Unknown Category Line 4", "Unknown Category Line 5">>

\* A request that always gets the default name.
LineNameDefault(line, line_num) == UnknownCategoryLine[line_num]
\* cat_data.get("category_name", f"Unknown Category Line {line_num}")
LineName(line, line_num) ==
    IF line.category_name = Absent THEN UnknownCategoryLine[line_num]
    ELSE line.category_name

\* start_requests: the requests yielded for the lines of the file, in order
\* (processed_urls is the local set), and the log records.
RECURSIVE StartRequests(_, _, _, _, _, _)
StartRequests(sp, lines, line_num, processed_urls, reqs, lg) ==
    IF line_num > Len(lines) THEN [reqs |-> reqs, log |-> lg]
    ELSE LET line == lines[line_num] IN
         IF line.kind # "object"
         THEN StartRequests(sp, lines, line_num + 1, processed_urls, reqs,
                  Append(lg, LogRec("error", "start_requests", "bad line",
                                    <<line_num>>, NoUrl)))
         ELSE IF ~ValidCategoryLine(sp, line)
         THEN StartRequests(sp, lines, line_num + 1, processed_urls, reqs,
                  Append(lg, LogRec("warning", "start_requests", "invalid entry",
                                    <<line_num>>, line.category_url)))
         ELSE IF line.category_url \in processed_urls
         THEN StartRequests(sp, lines, line_num + 1, processed_urls, reqs, lg)
         ELSE StartRequests(sp, lines, line_num + 1,
                  processed_urls \cup {line.category_url},
                  Append(reqs, Request(line.category_url, "parse_category",
                                       LineName(line, line_num), 0,
                                       line.category_url)),
                  lg)

\* A product request built without passing the name on.
ProductMetaNameLost(category_name) == "Unknown Category"
\* meta={"category_name": category_name} at the product requests.
ProductMetaName(category_name) == category_name

\* parse_category(response) on a text response: a product request per product
\* link, then the next-page request with meta=response.meta (which holds
\* the retry_times of the request that fetched this page).
parse_category(sp, req, page) ==
    LET category_name == req.category_name
        product_requests ==
            [i \in DOMAIN page.links |->
                Request(urljoin(req.url, page.links[i]), "parse_product_detail",
                        ProductMetaName(category_name), 0, req.root)]
        next_requests ==
            [i \in DOMAIN page.next |->
                Request(urljoin(req.url, page.next[i]), "parse_category",
                        category_name, req.retry_times, req.root)]
    IN  product_requests \o next_requests

\* Requests yielded with dont_filter=True.
SpiderDontFilterSet == TRUE
\* The dont_filter flag of the requests the callbacks yield: the spiders
\* leave it at its default.
SpiderDontFilter == FALSE

\* MapCompose(parse_price) and TakeFirst over the matched price texts.
LoadPrice(price_texts) ==
    LET parsed == [i \in DOMAIN price_texts |-> parse_price(price_texts[i])]
        kept == SelectSeq(parsed, LAMBDA v : v # NoneFloat)
    IN  IF kept = <<>> THEN NoneFloat ELSE kept[1]

\* parse_product_detail(response) up to load_item(): the item, for a page
\* without a description section.
LoadProductItem(sp, req, page) ==
    ProductItem(sp, page.name, LoadPrice(page.price_texts), req.url, page.code,
                IF sp = "ryans_product_details" THEN "In Stock" ELSE page.status_text,
                page.brand,
                IF page.specs.kind = "dict" /\ DOMAIN page.specs.val # {}
                THEN page.specs ELSE SpecNone,
                req.category_name)

\* loader.add_value("description_html", ...): neither item class declares the
\* field, so the call raises KeyError when the page has a description.
ParseProductRaises(page) == ~page.is_text \/ page.has_description

\* A retry test that is off by the very count it should enforce.
RetryAlways(req) == req.retry_times + 1 <= RetryTimes + req.retry_times
\* CustomRetryMiddleware._retry (RetryMiddleware): a copy of the request with
\* retry_times + 1 while that does not exceed the retry count, else nothing.
RetryAllowed(req) == req.retry_times + 1 <= RetryTimes
RetryRequest(req) == [req EXCEPT !.retry_times = req.retry_times + 1]

----------------------------------------------------------------------------
(* The idle values of each part                                            *)

Pending == [kind |-> "pending", num |-> 0, exp |-> 0]

PriceIdle == price_text = <<>> /\ price_out = Pending

CatIdle ==
    /\ seed_doc = <<>>
    /\ cat_run = 0
    /\ cat_pc = "init"
    /\ seen_urls = {}
    /\ cat_yielded = <<>>
    /\ cat_out = <<>>
    /\ cat_prev = {}

PipeIdle ==
    /\ keys_seen = {}
    /\ file_handle = "None"
    /\ filename = "None"
    /\ items_written = 0
    /\ out_file = <<>>
    /\ disk_lines = 0
    /\ produced = <<>>
    /\ pipe_pc = "init"

RunIdle == clock = 0 /\ runs = <<>> /\ fs = <<>>

TablePending == [kind |-> "pending", val |-> EmptyDict]

TableIdle == table_doc = <<>> /\ table_out = TablePending

DlIdle == dl_req = <<>> /\ dl_pc = "idle" /\ cache = "none" /\ attempts = <<>>

CrawlIdle ==
    /\ category_file = [exists |-> FALSE, lines |-> <<>>]
    /\ item_limit = 0
    /\ started = FALSE
    /\ queue = {}
    /\ inflight = {}
    /\ df_seen = {}
    /\ submitted = {}
    /\ handled = {}
    /\ accepted = EmptyBag
    /\ failures = 0

----------------------------------------------------------------------------
(* SpecPrice: parse_price applied to every text of at most MaxLen characters *)

InitPrice ==
    /\ price_text \in TextsUpTo(MaxLen)
    /\ price_out = Pending
    /\ spider = "none"
    /\ log = <<>>
    /\ CatIdle /\ PipeIdle /\ CrawlIdle /\ RunIdle /\ TableIdle /\ DlIdle

CallParsePrice ==
    /\ price_out = Pending
    /\ price_out' = parse_price(price_text)
    /\ UNCHANGED <<price_text, spider, log, catVars, pipeVars, crawlVars, runVars,
                   tableVars, dlVars>>

NextPrice == CallParsePrice

SpecPrice == InitPrice /\ [][NextPrice]_vars

\* C4: parse_price is total: it never raises, it returns None or a strictly
\* positive number, and it returns None whenever the text stripped of every
\* character that is not a digit or a decimal point is empty, has more than
\* one decimal point, or denotes zero.
C4_ParsePriceTotal ==
    price_out # Pending =>
        LET rest == SelectSeq(price_text, LAMBDA c : c \in {"0", "5", "."})
            digits == SelectSeq(rest, LAMBDA c : c # ".")
        IN  /\ price_out # Raised
            /\ price_out = NoneFloat \/ (price_out.kind = "float" /\ price_out.num > 0)
            /\ (\/ rest = <<>>
                \/ SeqCount(rest, ".") > 1
                \/ \A i \in 1..Len(digits) : digits[i] = "0")
               => price_out = NoneFloat

\* A text with a letter and a lone decimal point (float(".") is a ValueError)
\* went through parse_price and came out as None.
C4_Witness ==
    /\ price_out = NoneFloat
    /\ StripNonPrice(price_text) = <<".">>
    /\ Len(price_text) > 1

----------------------------------------------------------------------------
(* SpecCat: a category spider run twice over the same seed document        *)

RECURSIVE SeqsUpTo(_, _)
SeqsUpTo(S, n) ==
    IF n = 0 THEN {<<>>}
    ELSE LET shorter == SeqsUpTo(S, n - 1) IN
         shorter \cup {Append(q, x) : q \in {r \in shorter : Len(r) = n - 1}, x \in S}

\* The hrefs of the bounded seed documents: "#", "/", "", and two category
\* paths.
SeedHrefs ==
    {Href("", <<>>, "empty"), Href("", <<"">>, "none"), Href("", <<>>, "none"),
     Href("", <<"category", "x">>, "none"), Href("", <<"category", "y">>, "none")}

\* The link texts: whitespace only, and a whitespace node followed by the
\* node " X  Z ".
SeedTexts ==
    {<< <<" ", " ">> >>,
     << <<" ">>, <<" ", "X", " ", " ", "Z", " ">> >>}

SeedLinks == {Link(h, t) : h \in SeedHrefs, t \in SeedTexts}

InitCat ==
    /\ spider \in CategorySpiders \cup LegacyCategorySpiders
    /\ seed_doc \in SeqsUpTo(SeedLinks, MaxLinks)
    /\ cat_run = 0
    /\ cat_pc = "init"
    /\ seen_urls = {}
    /\ cat_yielded = <<>>
    /\ cat_out = <<>>
    /\ cat_prev = {}
    /\ log = <<>>
    /\ PriceIdle /\ RunIdle /\ TableIdle /\ DlIdle /\ PipeIdle /\ CrawlIdle

Range(q) == {q[i] : i \in DOMAIN q}

\* A run starts: the crawler builds its pipelines (DropDuplicatesPipeline.
\* __init__) and the feed overwrites the category file.
CatOpenSpider ==
    /\ cat_pc \in {"init", "closed"}
    /\ cat_run < 2
    /\ cat_run' = cat_run + 1
    /\ cat_pc' = "opened"
    /\ keys_seen' = {}
    /\ cat_prev' = Range(cat_out)
    /\ cat_out' = <<>>
    /\ cat_yielded' = <<>>
    /\ UNCHANGED <<spider, seed_doc, seen_urls, log, priceVars, runVars, tableVars, dlVars, crawlVars,
                   file_handle, filename, items_written, out_file, disk_lines,
                   produced, pipe_pc>>

\* parse(response) on the seed document, every yielded item going through
\* the item pipelines into the feed.
CatParse ==
    /\ cat_pc = "opened"
    /\ IF spider \in LegacyCategorySpiders
       THEN LET r == LegacyParseLinks(seed_doc, start_url(spider),
                                      FreshSeenUrls(seen_urls), <<>>)
            IN  /\ seen_urls' = r.seen
                /\ cat_yielded' = r.yielded
                /\ cat_out' = LegacyFeedItems(r.yielded)
                /\ UNCHANGED keys_seen
       ELSE LET r == ParseLinks(spider, seed_doc, start_url(spider),
                                FreshSeenUrls(seen_urls), <<>>)
                f == FeedItems(spider, r.yielded, keys_seen, <<>>)
            IN  /\ seen_urls' = r.seen
                /\ cat_yielded' = r.yielded
                /\ keys_seen' = f.keys
                /\ cat_out' = f.fed
    /\ cat_pc' = "parsed"
    /\ UNCHANGED <<spider, seed_doc, cat_run, cat_prev, log, priceVars, runVars, tableVars, dlVars, crawlVars,
                   file_handle, filename, items_written, out_file, disk_lines,
                   produced, pipe_pc>>

\* The run ends.
CatCloseSpider ==
    /\ cat_pc = "parsed"
    /\ cat_pc' = "closed"
    /\ UNCHANGED <<spider, seed_doc, cat_run, seen_urls, cat_yielded, cat_out, cat_prev,
                   log, priceVars, runVars, tableVars, dlVars, crawlVars, pipeVars>>

NextCat == CatOpenSpider \/ CatParse \/ CatCloseSpider

SpecCat == InitCat /\ [][NextCat]_vars

\* A link that CategoryParse is said to reject: href "#", a resolved URL with
\* the root path, or a resolved URL equal to the seed URL.
IgnoredLink(link, seed) ==
    \/ HrefIsHash(link.href)
    \/ urljoin(seed, link.href).path = <<"">>
    \/ urljoin(seed, link.href) = seed

\* C5: on every site, no emitted CategoryRecord comes from a link whose href
\* is "#", whose resolved URL has the root path or equals the seed URL, and
\* every other link with a non-empty name yields a record with the cleaned
\* name or, for a repeated URL, the record of that URL.
C5_IgnoredLinksNeverEmitted ==
    cat_pc = "parsed" =>
        LET seed == start_url(spider) IN
        /\ \A i \in DOMAIN cat_out :
               /\ cat_out[i].category_url.path # <<"">>
               /\ cat_out[i].category_url # seed
        /\ \A j \in DOMAIN seed_doc :
               (~IgnoredLink(seed_doc[j], seed) /\ ~HrefIsEmpty(seed_doc[j].href)
                  /\ LoadCategoryName(seed_doc[j]) # <<>>)
               => \E i \in DOMAIN cat_out :
                      cat_out[i].category_url = urljoin(seed, seed_doc[j].href)

\* The same statement for the Ryans spider alone.
C5_RyansOnly == spider = "ryans_categories" => C5_IgnoredLinksNeverEmitted

\* C6: the second run over the same seed document emits the same set of
\* CategoryRecords as the first.
C6_Phase1Deterministic ==
    (cat_run = 2 /\ cat_pc \in {"parsed", "closed"}) => Range(cat_out) = cat_prev

\* The second run has parsed a document with a repeated category link and
\* emitted a record, as the first run did.
C6_Witness ==
    /\ cat_run = 2 /\ cat_pc = "parsed"
    /\ cat_out # <<>>
    /\ Len(seed_doc) > Len(cat_out) + 1
    /\ \E i, j \in DOMAIN seed_doc :
           i # j /\ seed_doc[i].href = seed_doc[j].href
             /\ seed_doc[i].href = Href("", <<"category", "x">>, "none")
             /\ LoadCategoryName(seed_doc[i]) # <<>>

----------------------------------------------------------------------------
(* SpecPipe: the item pipelines of one run fed with a bounded item stream  *)

PipeSpiders == ProductSpiders \cup CategorySpiders \cup LegacySpiders

ItemUrl1 == Url(RyansHost, <<"p", "1">>, "")
ItemUrl2 == Url(RyansHost, <<"p", "2">>, "")
SomeSpecs == SpecDict([General |-> [k1 |-> "v1"]])

\* The product items of the stream: valid items with each kind of
\* specifications value, items with one or several failing essential fields,
\* and items of a second URL.
ProductItems(sp) ==
    {ProductItem(sp, "N", Float(5, 0), ItemUrl1, "C", "In Stock", "B", sp_, "Cat") :
        sp_ \in {SomeSpecs, SpecNone, SpecOther}}
    \cup
    {ProductItem(sp, Absent, Float(5, 0), ItemUrl1, "C", "In Stock", "B", SomeSpecs, "Cat"),
     ProductItem(sp, "N", Float(5, 0), ItemUrl1, "C", "In Stock", "", SomeSpecs, "Cat"),
     ProductItem(sp, "N", NoneFloat, ItemUrl1, "C", "In Stock", "B", SomeSpecs, "Cat"),
     ProductItem(sp, "N", Float(0, 0), ItemUrl1, "C", "In Stock", "B", SomeSpecs, "Cat"),
     ProductItem(sp, "N", Float(0 - 5, 0), ItemUrl1, "C", "In Stock", "B", SomeSpecs, "Cat"),
     ProductItem(sp, Absent, NoneFloat, ItemUrl2, Absent, "In Stock", "B", SpecNone, "Cat"),
     ProductItem(sp, "N", Float(5, 0), ItemUrl2, "C", "In Stock", "B", SpecDict(EmptyDict), "Cat"),
     ProductItem(sp, "N", NoneFloat, ItemUrl2, "C", "In Stock", "B", SpecNone, "Cat"),
     ProductItem(sp, "N", Float(5, 0), ItemUrl1, "C", "In Stock", Bytes, SomeSpecs, "Cat")}

CategoryItems ==
    {CategoryItem(<<"X">>, ItemUrl1), CategoryItem(<<"Y">>, ItemUrl1),
     CategoryItem(<<"X">>, ItemUrl2)}

LaptopItems ==
    {LaptopItem(ItemUrl1, <<"5">>), LaptopItem(ItemUrl1, <<"C">>),
     LaptopItem(ItemUrl2, <<>>), LaptopItem(NoUrl, <<"5">>)}

StreamItems(sp) ==
    IF sp \in ProductSpiders THEN ProductItems(sp)
    ELSE IF sp \in CategorySpiders THEN CategoryItems
    ELSE LaptopItems

InitPipe ==
    /\ spider \in PipeSpiders
    /\ log = <<>>
    /\ PipeIdle /\ PriceIdle /\ RunIdle /\ TableIdle /\ DlIdle /\ CatIdle /\ CrawlIdle

\* The uniqueness key of an item of the running spider.
KeyOf(sp, item) == IF sp \in CategorySpiders THEN item.category_url ELSE item.url

\* open_spider of the export pipeline and the construction of the other
\* pipelines. The category spiders switch the export pipeline off.
\* outcome: "ok", "dir_error" (the directory cannot be made), "open_error".
OpenSpider(outcome) ==
    /\ pipe_pc = "init"
    /\ pipe_pc' = "running"
    /\ keys_seen' = {}
    /\ items_written' = 0
    /\ out_file' = <<>>
    /\ disk_lines' = 0
    /\ IF spider \in CategorySpiders
       THEN UNCHANGED <<file_handle, filename, log>>
       ELSE /\ filename' = "set"
            /\ file_handle' = IF outcome = "ok" THEN "open" ELSE "None"
            /\ log' = IF outcome = "ok" THEN log
                      ELSE Append(log, LogRec("error", "JsonLinesExportPipeline",
                                              outcome, <<>>, NoUrl))
    /\ UNCHANGED produced

PipeOpenSpider ==
    /\ \E outcome \in {"ok", "dir_error", "open_error"} : OpenSpider(outcome)
    /\ UNCHANGED <<spider, priceVars, runVars, tableVars, dlVars, catVars, crawlVars>>

\* One item handed to the pipelines of the running spider.
RunPipelines(sp, item, write_ok) ==
    IF sp \in CategorySpiders THEN CategoryPipelines(sp, item, keys_seen)
    ELSE IF sp \in LegacySpiders
    THEN LegacyPipelines(item, keys_seen, file_handle, write_ok)
    ELSE ItemPipelines(sp, item, keys_seen, file_handle, filename, write_ok)

\* A chain that is interrupted after the duplicate test: the key is not yet
\* in the set when the step ends.
ProcessItem_insert_deferred(item, write_ok, buffer_full) ==
    \E r \in {RunPipelines(spider, item, write_ok)} :
    /\ keys_seen' = keys_seen
    /\ out_file' = out_file \o r.lines
    /\ disk_lines' = disk_lines
    /\ items_written' = items_written + r.written
    /\ log' = log \o r.log
    /\ produced' = Append(produced, [key |-> KeyOf(spider, item), item |-> item,
                                     fate |-> r.fate, out |-> r.item])
    /\ UNCHANGED <<file_handle, filename, pipe_pc>>
\* The file is opened with the default buffering and never flushed by the
\* pipeline: a written line stays in the buffer until the buffer fills
\* (buffer_full) or the file is closed.
ProcessItem(item, write_ok, buffer_full) ==
    \E r \in {RunPipelines(spider, item, write_ok)} :
    /\ keys_seen' = r.keys
    /\ out_file' = out_file \o r.lines
    /\ disk_lines' = IF buffer_full /\ r.lines # <<>> THEN Len(out_file) + Len(r.lines)
                     ELSE disk_lines
    /\ items_written' = items_written + r.written
    /\ log' = log \o r.log
    /\ produced' = Append(produced, [key |-> KeyOf(spider, item), item |-> item,
                                     fate |-> r.fate, out |-> r.item])
    /\ UNCHANGED <<file_handle, filename, pipe_pc>>

PipeProcessItem ==
    /\ pipe_pc = "running"
    /\ Len(produced) < MaxItems
    /\ \E item \in StreamItems(spider), write_ok \in BOOLEAN, buffer_full \in BOOLEAN :
           ProcessItem(item, write_ok, buffer_full)
    /\ UNCHANGED <<spider, priceVars, runVars, tableVars, dlVars, catVars, crawlVars>>

\* close_spider of the export pipeline.
CloseSpider ==
    /\ pipe_pc = "running"
    /\ pipe_pc' = "closed"
    /\ file_handle' = "None"
    /\ filename' = "None"
    /\ items_written' = 0
    /\ disk_lines' = Len(out_file)
    /\ UNCHANGED <<keys_seen, out_file, produced, log>>

PipeCloseSpider ==
    /\ CloseSpider
    /\ UNCHANGED <<spider, priceVars, runVars, tableVars, dlVars, catVars, crawlVars>>

\* The process is killed while the spider runs: close_spider never runs and
\* what the buffer held is lost.
PipeKill ==
    /\ pipe_pc = "running"
    /\ pipe_pc' = "killed"
    /\ UNCHANGED <<keys_seen, file_handle, filename, items_written, out_file,
                   disk_lines, produced, log>>
    /\ UNCHANGED <<spider, priceVars, runVars, tableVars, dlVars, catVars, crawlVars>>

NextPipe == PipeOpenSpider \/ PipeProcessItem \/ PipeCloseSpider \/ PipeKill

SpecPipe == InitPipe /\ [][NextPipe]_vars

\* produced[i] is the first record of the run with its key.
FirstOfKey(i) == \A j \in 1..(i - 1) : produced[j].key # produced[i].key

\* The essential fields the claim lists for each site.
EssentialSet(sp) ==
    IF sp = "ryans_product_details"
    THEN {"name", "price", "url", "sku", "availability", "brand"}
    ELSE {"name", "price", "url", "availability", "product_code", "brand"}

\* The failing essential fields of a product item: absent or empty, and the
\* price when it is not positive.
FailingFields(sp, item) ==
    {f \in EssentialSet(sp) : Falsy(item, f)}
    \cup (IF item.price.kind = "float" /\ item.price.num <= 0 THEN {"price"} ELSE {})

\* C1 as stated: of the records with one key, exactly the first is forwarded
\* to the sink.
C1_ExactlyFirstForwarded ==
    \A i \in DOMAIN produced :
        produced[i].key # NoUrl =>
            (produced[i].fate = "forwarded" <=> FirstOfKey(i))

\* C1 as amended: of the records with one key, none but the first is
\* forwarded to the sink (every later one is dropped as a duplicate), and the
\* first is forwarded unless it fails essential-field validation.
C1_OnlyFirstForwarded ==
    \A i \in DOMAIN produced :
        produced[i].key # NoUrl =>
            /\ ~FirstOfKey(i) => produced[i].fate = "duplicate"
            /\ FirstOfKey(i) =>
                   IF spider \in ProductSpiders /\ FailingFields(spider, produced[i].item) # {}
                   THEN produced[i].fate = "invalid"
                   ELSE produced[i].fate = "forwarded"

\* Three records of one key went through the pipelines of a product spider:
\* the first was forwarded, the two later ones were dropped.
C1_Witness ==
    /\ spider \in ProductSpiders
    /\ Len(produced) = 3
    /\ produced[1].fate = "forwarded"
    /\ produced[2].key = produced[1].key /\ produced[2].fate = "duplicate"
    /\ produced[3].key = produced[1].key /\ produced[3].fate = "duplicate"

\* The warnings RequiredFieldsPipeline wrote when it dropped an item, and the
\* records it dropped, both in order.
DropWarnings ==
    SelectSeq(log, LAMBDA l : l.by = "RequiredFieldsPipeline" /\ l.what = "DROP")
InvalidRecords == SelectSeq(produced, LAMBDA r : r.fate = "invalid")

\* The field names of a drop warning: "price (invalid/missing)" names price.
NamedFields(l) ==
    {IF l.fields[k] = "price (invalid/missing)" THEN "price" ELSE l.fields[k] :
        k \in DOMAIN l.fields}

\* C2: a product record with an essential field absent or empty, or with a
\* price that is not positive, never reaches the sink: RequiredFieldsPipeline
\* drops it (unless it was dropped as a duplicate before), and the drop
\* warning names every failing field.
C2_EssentialFailureDropped ==
    spider \in ProductSpiders =>
        /\ \A i \in DOMAIN produced :
               FailingFields(spider, produced[i].item) # {}
                   => produced[i].fate \in {"invalid", "duplicate"}
        /\ \A k \in DOMAIN out_file :
               \A f \in EssentialSet(spider) :
                   /\ f \in DOMAIN out_file[k]
                   /\ f \in TextFields => out_file[k][f] # ""
                   /\ f = "price" => out_file[k][f].kind = "number" /\ out_file[k][f].num > 0
        /\ Len(DropWarnings) = Len(InvalidRecords)
        /\ \A n \in DOMAIN InvalidRecords :
               /\ DropWarnings[n].level = "warning"
               /\ FailingFields(spider, InvalidRecords[n].item)
                      \subseteq NamedFields(DropWarnings[n])

\* A record with a negative price and a record with three failing fields
\* were both dropped by RequiredFieldsPipeline, each with its warning.
C2_Witness ==
    /\ spider \in ProductSpiders
    /\ Len(DropWarnings) = 2
    /\ \E i, j \in DOMAIN produced :
           /\ produced[i].fate = "invalid" /\ produced[i].item.price.num < 0
           /\ produced[j].fate = "invalid"
           /\ Cardinality(FailingFields(spider, produced[j].item)) = 3

\* C3: a product record with every essential field whose specifications are
\* absent, no mapping, or an empty mapping is kept by RequiredFieldsPipeline
\* and reaches the sink with specifications None.
C3_SpecificationsForcedNone ==
    spider \in ProductSpiders =>
        /\ \A i \in DOMAIN produced :
               LET it == produced[i].item IN
               (/\ FailingFields(spider, it) = {}
                /\ produced[i].fate # "duplicate"
                /\ \/ it.specifications.kind # "dict"
                   \/ DOMAIN it.specifications.val = {})
               => /\ produced[i].fate = "forwarded"
                  /\ produced[i].out.specifications = SpecNone
        /\ \A k \in DOMAIN out_file :
               \/ out_file[k].specifications.kind = "null"
               \/ /\ out_file[k].specifications.kind = "object"
                  /\ DOMAIN out_file[k].specifications.val # {}

\* A record whose specifications were no mapping and one whose
\* specifications were an empty mapping were both written with null.
C3_Witness ==
    /\ spider \in ProductSpiders
    /\ Len(out_file) = 2
    /\ out_file[1].specifications.kind = "null"
    /\ out_file[2].specifications.kind = "null"
    /\ \E i, j \in DOMAIN produced :
           /\ produced[i].fate = "forwarded"
           /\ produced[i].item.specifications = SpecOther
           /\ produced[i].out.specifications = SpecNone
           /\ produced[j].fate = "forwarded"
           /\ produced[j].item.specifications = SpecDict(EmptyDict)
           /\ produced[j].out.specifications = SpecNone

----------------------------------------------------------------------------
(* SpecCrawl: a product spider crawling the site                           *)

\* The category files of the bounded runs: two categories; a line that is
\* no JSON, then one URL twice under two names; a category whose page is no
\* text, then a line without a name.
CategoryFiles(sp) ==
    {[exists |-> TRUE,
      lines |-> <<Line("object", "A", CatUrl(sp, "a1")),
                  Line("object", "B", CatUrl(sp, "b1"))>>],
     [exists |-> TRUE,
      lines |-> <<Line("garbage", Absent, NoUrl),
                  Line("object", "A", CatUrl(sp, "a1")),
                  Line("object", "Z", CatUrl(sp, "a1"))>>],
     [exists |-> TRUE,
      lines |-> <<Line("object", "C", CatUrl(sp, "c1")),
                  Line("object", Absent, CatUrl(sp, "b1"))>>],
     [exists |-> FALSE, lines |-> <<>>]}

InitCrawl ==
    /\ spider \in ProductSpiders
    /\ category_file \in CategoryFiles(spider)
    /\ item_limit = 0
    /\ started = FALSE
    /\ queue = {}
    /\ inflight = {}
    /\ df_seen = {}
    /\ submitted = {}
    /\ handled = {}
    /\ accepted = EmptyBag
    /\ failures = 0
    /\ log = <<>>
    /\ PipeIdle /\ PriceIdle /\ RunIdle /\ TableIdle /\ DlIdle /\ CatIdle

\* The crawler opens the pipelines before the first request. In the crawl
\* the export file opens and every write succeeds; SpecPipe covers the runs
\* in which they fail.
CrawlOpenSpider ==
    /\ OpenSpider("ok")
    /\ UNCHANGED <<spider, priceVars, runVars, tableVars, dlVars, catVars, crawlVars>>

\* A start that mentions the missing file at info level only.
CategoryFileNotFoundInfo ==
    LogRec("info", "start_requests", "Category file not found", <<>>, NoUrl)
\* self.logger.error(f"Category file not found: {self.category_file}")
CategoryFileNotFound ==
    LogRec("error", "start_requests", "Category file not found", <<>>, NoUrl)

\* start_requests().
CrawlStartRequests ==
    /\ pipe_pc = "running"
    /\ ~started
    /\ started' = TRUE
    /\ IF ~category_file.exists
       THEN /\ log' = Append(log, CategoryFileNotFound)
            /\ UNCHANGED <<queue, df_seen, submitted, accepted>>
       ELSE LET r == StartRequests(spider, category_file.lines, 1, {}, <<>>, <<>>)
                e == Enqueue(r.reqs, SpiderDontFilter, queue, df_seen)
            IN  /\ queue' = e.queue
                /\ df_seen' = e.seen
                /\ submitted' = submitted \cup Range(r.reqs)
                /\ accepted' = accepted (+) e.accepted
                /\ log' = log \o r.log
    /\ UNCHANGED <<spider, category_file, item_limit, inflight, handled, failures,
                   priceVars, runVars, tableVars, dlVars, catVars, pipeVars>>

\* The engine takes a request from the scheduler and starts its download.
Download ==
    /\ Cardinality(inflight) < MaxInFlight
    /\ \E req \in queue :
           /\ queue' = queue \ {req}
           /\ inflight' = inflight \cup {req}
    /\ UNCHANGED <<spider, category_file, item_limit, started, df_seen, submitted, handled, log,
                   accepted, failures, priceVars, runVars, tableVars, dlVars, catVars, pipeVars>>

SpiderErrorLog(req) ==
    LogRec("error", "scrapy.core.scraper", "Spider error processing", <<>>, req.url)

\* An errback that only writes a debug record.
handle_error_debug(req) ==
    LogRec("debug", "handle_error", "Request failed", <<req.category_name>>, req.url)
\* handle_error(failure): self.logger.error with the URL and the meta of the
\* failed request.
handle_error(req) ==
    LogRec("error", "handle_error", "Request failed", <<req.category_name>>, req.url)

\* A category page arrives with status 200: parse_category runs; its requests
\* go to the scheduler. On a response that is no text response.css raises
\* and the engine logs the spider error.
CategoryResponse ==
    \E req \in inflight :
        /\ req.callback = "parse_category"
        /\ inflight' = inflight \ {req}
        /\ LET page == PageAt(spider, req.url) IN
           IF ~page.is_text
           THEN /\ log' = Append(log, SpiderErrorLog(req))
                /\ handled' = handled \cup {[req |-> req, outcome |-> "parse_error"]}
                /\ UNCHANGED <<queue, df_seen, submitted, accepted>>
           ELSE \E reqs \in {parse_category(spider, req, page)} :
                \E e \in {Enqueue(reqs, SpiderDontFilter, queue, df_seen)} :
                    /\ queue' = e.queue
                    /\ df_seen' = e.seen
                    /\ submitted' = submitted \cup Range(reqs)
                    /\ accepted' = accepted (+) e.accepted
                    /\ handled' = handled \cup {[req |-> req, outcome |-> "parsed"]}
                    /\ UNCHANGED log
        /\ UNCHANGED <<spider, category_file, item_limit, started, failures,
                       priceVars, runVars, tableVars, dlVars, catVars, pipeVars>>

\* A product page arrives with status 200: parse_product_detail runs and the
\* item it yields goes through the item pipelines.
ProductResponse ==
    \E req \in inflight :
        /\ req.callback = "parse_product_detail"
        /\ inflight' = inflight \ {req}
        /\ LET page == PageAt(spider, req.url) IN
           IF ParseProductRaises(page)
           THEN /\ log' = Append(log, SpiderErrorLog(req))
                /\ handled' = handled \cup {[req |-> req, outcome |-> "parse_error"]}
                /\ UNCHANGED pipeVars
           ELSE /\ \E item \in {LoadProductItem(spider, req, page)} :
                      ProcessItem(item, TRUE, FALSE)
                /\ handled' = handled \cup {[req |-> req, outcome |-> "parsed"]}
        /\ UNCHANGED <<spider, category_file, item_limit, started, queue, df_seen, submitted,
                       accepted, failures, priceVars, runVars, tableVars, dlVars, catVars>>

\* _retry(request, reason, spider) or the end of the road: the retry goes
\* back to the scheduler with dont_filter set; when _retry gives up the
\* failure reaches the errback of the request.
RetryOrFail(req) ==
    /\ failures < MaxFailures
    /\ failures' = failures + 1
    /\ inflight' = inflight \ {req}
    /\ IF RetryAllowed(req)
       THEN /\ queue' = Enqueue(<<RetryRequest(req)>>, TRUE, queue, df_seen).queue
            /\ UNCHANGED <<handled, log>>
       ELSE /\ handled' = handled \cup {[req |-> req, outcome |-> "failed"]}
            /\ log' = Append(log, handle_error(req))
            /\ UNCHANGED queue
    /\ UNCHANGED <<spider, category_file, item_limit, started, df_seen, submitted, accepted,
                   priceVars, runVars, tableVars, dlVars, catVars, pipeVars>>

\* CustomRetryMiddleware.process_response: status 403 or 429; Scrapy's own
\* RetryMiddleware, which DOWNLOADER_MIDDLEWARES leaves enabled, does the
\* same for the codes of RETRY_HTTP_CODES, 500 among them.
RetryOnResponse ==
    \E req \in inflight, status \in {403, 429, 500} : RetryOrFail(req)

\* CustomRetryMiddleware.process_exception: the download raised.
RetryOnException ==
    \E req \in inflight : RetryOrFail(req)

\* Any other error status: process_response returns the response, which
\* reaches the errback as an HttpError.
HttpErrorResponse ==
    \E req \in inflight, status \in {404, 410} :
        /\ failures < MaxFailures
        /\ failures' = failures + 1
        /\ inflight' = inflight \ {req}
        /\ handled' = handled \cup {[req |-> req, outcome |-> "failed"]}
        /\ log' = Append(log, handle_error(req))
        /\ UNCHANGED <<spider, category_file, item_limit, started, queue, df_seen, submitted,
                       accepted, priceVars, runVars, tableVars, dlVars, catVars, pipeVars>>

\* An engine that never finds itself idle.
EngineNeverIdle == FALSE
\* Nothing is queued or in flight: the spider closes.
CrawlDone == started /\ queue = {} /\ inflight = {}

CrawlCloseSpider ==
    /\ CrawlDone
    /\ CloseSpider
    /\ UNCHANGED <<spider, priceVars, runVars, tableVars, dlVars, catVars, crawlVars>>

NextCrawl ==
    \/ CrawlOpenSpider
    \/ CrawlCloseSpider
    \/ Download
    \/ RetryOnResponse
    \/ RetryOnException
    \/ HttpErrorResponse
    \/ CategoryResponse
    \/ ProductResponse
    \/ CrawlStartRequests

SpecCrawl == InitCrawl /\ [][NextCrawl]_vars

----------------------------------------------------------------------------
(* Properties of the crawl                                                 *)

\* The requests start_requests builds from the category file.
StartReqs ==
    IF category_file.exists
    THEN Range(StartRequests(spider, category_file.lines, 1, {}, <<>>, <<>>).reqs)
    ELSE {}

\* Every request the run has known.
AllRequests == submitted \cup queue \cup inflight \cup {h.req : h \in handled}

\* Every URL the scheduler accepted has got its final answer.
AllAcceptedHandled ==
    \A u \in BagToSet(accepted) : \E h \in handled : h.req.url = u

\* C7: along a chain of next-page links every request (product fetch or
\* next-page fetch) carries the category name start_requests attached to the
\* first page of the chain, and so does the category field of every record;
\* a parsed category page has yielded a product fetch for every product
\* link and a fetch for its next-page link, the scheduler has accepted a
\* fetch for each of those URLs, and when the crawl is over every accepted
\* fetch has been carried out (or has failed for good).
C7_ChainCarriesFirstPageName ==
    /\ \A r \in AllRequests :
           \E s \in StartReqs : s.url = r.root /\ r.category_name = s.category_name
    /\ \A h \in handled :
           (h.outcome = "parsed" /\ h.req.callback = "parse_category") =>
               LET page == PageAt(spider, h.req.url) IN
               /\ \A i \in DOMAIN page.links :
                      LET u == urljoin(h.req.url, page.links[i]) IN
                      /\ \E r \in submitted :
                             /\ r.url = u /\ r.callback = "parse_product_detail"
                             /\ r.root = h.req.root
                             /\ r.category_name = h.req.category_name
                      /\ BagIn(u, accepted)
               /\ \A i \in DOMAIN page.next :
                      LET u == urljoin(h.req.url, page.next[i]) IN
                      /\ \E r \in submitted :
                             /\ r.url = u /\ r.callback = "parse_category"
                             /\ r.root = h.req.root
                             /\ r.category_name = h.req.category_name
                      /\ BagIn(u, accepted)
    /\ started =>
           \A i \in DOMAIN produced :
               \E h \in handled :
                   /\ h.req.url = produced[i].item.url /\ h.outcome = "parsed"
                   /\ produced[i].item.category = h.req.category_name
                   /\ produced[i].out.category = h.req.category_name
    /\ started =>
           \A k \in DOMAIN out_file :
               \E h \in handled :
                   /\ h.req.url = out_file[k].url
                   /\ out_file[k].category = h.req.category_name
    /\ CrawlDone => AllAcceptedHandled

\* Category A was crawled to its second page, and product 3, found there
\* only, got a record of category A in the export file.
C7_Witness ==
    /\ CrawlDone
    /\ \E h \in handled :
           /\ h.req.url = CatUrl(spider, "a2") /\ h.outcome = "parsed"
           /\ h.req.root = CatUrl(spider, "a1") /\ h.req.category_name = "A"
    /\ \E i \in DOMAIN produced :
           /\ produced[i].item.url = ProdUrl(spider, "3")
           /\ produced[i].item.category = "A"
    /\ \E k \in DOMAIN out_file :
           /\ out_file[k].url = ProdUrl(spider, "1") /\ out_file[k].category = "A"

\* C8: the scheduler accepts at most one of the spider's requests for a
\* product URL, however often the callbacks yield it; no two requests for
\* one URL wait or are in flight together.
C8_NoProductUrlEnqueuedTwice ==
    /\ \A r \in submitted :
           r.callback = "parse_product_detail" => CopiesIn(r.url, accepted) <= 1
    /\ \A r1, r2 \in queue \cup inflight : r1.url = r2.url => r1 = r2

\* All three category pages were parsed: product 1 is linked twice on one
\* page, product 2 on two pages of one category, product 3 in two categories.
C8_Witness ==
    /\ \A k \in {"a1", "a2", "b1"} :
           \E h \in handled : h.req.url = CatUrl(spider, k) /\ h.outcome = "parsed"
    /\ \A k \in {"1", "2", "3"} : CopiesIn(ProdUrl(spider, k), accepted) = 1
    /\ \E r1, r2 \in submitted :
           /\ r1.url = ProdUrl(spider, "3") /\ r2.url = ProdUrl(spider, "3")
           /\ r1.category_name = "A" /\ r2.category_name = "B"

\* A step in which a download fails: the request leaves the downloader and
\* is either re-issued, as a copy that differs in retry_times only and while
\* the count allows it, or delivered to the errback, which logs it.
FailureStep ==
    failures' = failures + 1 =>
        \E r \in inflight :
            /\ inflight' = inflight \ {r}
            /\ \/ /\ r.retry_times < RetryTimes
                  /\ queue' = queue \cup {[r EXCEPT !.retry_times = r.retry_times + 1]}
                  /\ handled' = handled /\ log' = log
               \/ /\ queue' = queue
                  /\ handled' = handled \cup {[req |-> r, outcome |-> "failed"]}
                  /\ Len(log') = Len(log) + 1
                  /\ log'[Len(log')].by = "handle_error"
                  /\ log'[Len(log')].url = r.url

\* A step in which a request that has used up its retries fails: it is not
\* re-issued.
ExhaustedStep ==
    \A r \in inflight :
        (r.retry_times >= RetryTimes /\ r \notin inflight' /\ failures' = failures + 1)
            => queue' = queue /\ [req |-> r, outcome |-> "failed"] \in handled'

\* C9: no request is re-issued more often than the retry count says; every
\* re-issue carries the callback and the category name of the request it
\* repeats; a request that fails with its retries used up goes to the errback.
C9_RetriesBoundedSameContext ==
    /\ [](\A r \in AllRequests : r.retry_times <= RetryTimes)
    /\ [][FailureStep /\ ExhaustedStep]_vars

\* The request for the first page of category A failed on every attempt and
\* reached the errback with the retry count used up.
C9_Witness ==
    /\ failures = RetryTimes + 1
    /\ \E h \in handled :
           /\ h.req.url = CatUrl(spider, "a1") /\ h.outcome = "failed"
           /\ h.req.retry_times = RetryTimes /\ h.req.category_name = "A"
    /\ \E i \in DOMAIN log : log[i].by = "handle_error" /\ log[i].url = CatUrl(spider, "a1")

ErrbackLogged(req) ==
    \E i \in DOMAIN log :
        log[i].level = "error" /\ log[i].by = "handle_error" /\ log[i].url = req.url
SpiderErrorLogged(req) ==
    \E i \in DOMAIN log :
        log[i].level = "error" /\ log[i].by = "scrapy.core.scraper" /\ log[i].url = req.url

\* The run goes on after a failure: the spider closes only when nothing
\* waits or is in flight, by then every accepted fetch has got its answer,
\* and every parsed product page has handed its record to the pipelines,
\* which wrote it to the export file when it was valid.
RunContinues ==
    /\ (started /\ pipe_pc = "closed") => CrawlDone
    /\ CrawlDone => AllAcceptedHandled
    /\ \A h \in handled :
           (h.outcome = "parsed" /\ h.req.callback = "parse_product_detail") =>
               \E i \in DOMAIN produced :
                   /\ produced[i].item.url = h.req.url
                   /\ produced[i].fate = "forwarded" =>
                          \E k \in DOMAIN out_file : out_file[k].url = h.req.url

\* C10 as stated: every terminal fetch failure and every parse failure is
\* logged by the error callback (handle_error), and the run goes on.
C10_FailuresLoggedByErrorCallback ==
    /\ \A h \in handled :
           h.outcome \in {"failed", "parse_error"} => ErrbackLogged(h.req)
    /\ RunContinues

\* C10: a terminal fetch failure is logged by the error callback, a parse
\* failure (an exception in a callback) by the engine's spider-error
\* handler; in both cases the run goes on.
C10_FailuresLoggedRunContinues ==
    /\ \A h \in handled :
           /\ h.outcome = "failed" => ErrbackLogged(h.req)
           /\ h.outcome = "parse_error" => SpiderErrorLogged(h.req)
    /\ RunContinues

\* The fetch of category B failed for good, the callback of product 2
\* raised, and the run still wrote product 1 and came to its end.
C10_Witness ==
    /\ CrawlDone
    /\ \E h \in handled : h.req.url = CatUrl(spider, "b1") /\ h.outcome = "failed"
    /\ \E h \in handled : h.req.url = ProdUrl(spider, "2") /\ h.outcome = "parse_error"
    /\ \E k \in DOMAIN out_file : out_file[k].url = ProdUrl(spider, "1")
    /\ \E i \in DOMAIN produced : produced[i].item.url = ProdUrl(spider, "3")

----------------------------------------------------------------------------
(* Properties of the export file                                           *)

\* The export file was opened and no write to it failed for the record.
ExportOpen ==
    \A k \in DOMAIN log :
        ~(log[k].by = "JsonLinesExportPipeline"
          /\ log[k].what \in {"dir_error", "open_error", "not open"})
WriteFailed(url) ==
    \E k \in DOMAIN log :
        /\ log[k].by = "JsonLinesExportPipeline" /\ log[k].what = "write failed"
        /\ log[k].url = url
SerializeFailureLogged(url) ==
    \E k \in DOMAIN log :
        /\ log[k].level = "error" /\ log[k].by = "JsonLinesExportPipeline"
        /\ log[k].what = "serialize failed" /\ log[k].url = url
HasLine(url) == \E k \in DOMAIN out_file : out_file[k].url = url

\* C12: a record of a product spider that reaches the export pipeline and
\* cannot be serialized is logged and gets no line; the counter counts the
\* lines written and nothing else; the pipeline hands the record on instead
\* of raising, and a record that can be serialized, whether it comes before
\* or after, gets its line when the file is open and its write succeeds.
C12_UnserializableLoggedNotWritten ==
    spider \in ProductSpiders =>
        /\ pipe_pc = "running" => items_written = Len(out_file)
        /\ \A i \in DOMAIN produced :
               (produced[i].fate = "forwarded" /\ ExportOpen) =>
                   IF Serializable(produced[i].out)
                   THEN WriteFailed(produced[i].out.url) \/ HasLine(produced[i].out.url)
                   ELSE /\ ~HasLine(produced[i].out.url)
                        /\ SerializeFailureLogged(produced[i].out.url)

\* A record that cannot be serialized went through the open export
\* pipeline, and the record after it was written.
C12_Witness ==
    /\ spider \in ProductSpiders /\ pipe_pc = "running" /\ ExportOpen
    /\ Len(produced) = 2
    /\ produced[1].fate = "forwarded" /\ ~Serializable(produced[1].out)
    /\ produced[2].fate = "forwarded" /\ Serializable(produced[2].out)
    /\ Len(out_file) = 1 /\ out_file[1].url = produced[2].out.url
    /\ items_written = 1

\* C11: while a product spider runs, and when its process is killed, every
\* successful write has appended exactly one line (the lines written are as
\* many as items_written says) and every line written is in the file and
\* not in the buffer of the file object.
C11_WrittenLinesFlushed ==
    (spider \in ProductSpiders /\ pipe_pc \in {"running", "killed"}) =>
        /\ Len(out_file) = items_written
        /\ disk_lines = Len(out_file)

----------------------------------------------------------------------------
(* SpecRuns: several runs writing export files into one output directory    *)

\* The spiders whose runs open an export file through a JsonLinesExportPipeline.
ExportSpiders == ProductSpiders \cup LegacySpiders

\* datetime.now().strftime(...): both formats end with the second, so the
\* text is the same for every instant within one second.
strftime(now) == now \div TicksPerSecond

\* _generate_filename(spider) of price_scraper:
\* output/{spider.name}_export_{timestamp}.jl
generate_filename(sp, now) ==
    [dir |-> "output", job |-> sp, stem |-> "export", timestamp |-> strftime(now),
     ext |-> "jl"]

\* _generate_filename() of ryans_scraper: output/export_{timestamp}.jsonl
legacy_generate_filename(now) ==
    [dir |-> "output", job |-> "", stem |-> "export", timestamp |-> strftime(now),
     ext |-> "jsonl"]

FilenameOf(sp, now) ==
    IF sp \in LegacySpiders THEN legacy_generate_filename(now)
    ELSE generate_filename(sp, now)

InitRuns ==
    /\ clock = 0
    /\ runs = <<>>
    /\ fs = <<>>
    /\ spider = "none"
    /\ log = <<>>
    /\ PriceIdle /\ CatIdle /\ PipeIdle /\ CrawlIdle /\ TableIdle /\ DlIdle

\* Time passes.
RunsTick ==
    /\ clock < MaxClock
    /\ clock' = clock + 1
    /\ UNCHANGED <<runs, fs, spider, log, priceVars, catVars, pipeVars, crawlVars,
                   tableVars, dlVars>>

\* open_spider of a new run: the file name is built from the clock and the
\* file is opened with mode "w", which creates it or empties it.
RunsOpenSpider ==
    /\ Len(runs) < MaxRuns
    /\ \E sp \in ExportSpiders :
           LET fname == FilenameOf(sp, clock) IN
           /\ runs' = Append(runs, [spider |-> sp, started |-> clock,
                                    filename |-> fname, written |-> 0])
           /\ fs' = (fname :> <<>>) @@ fs
    /\ UNCHANGED <<clock, spider, log, priceVars, catVars, pipeVars, crawlVars,
                   tableVars, dlVars>>

\* _write_line of one of the runs: a line goes to the file the run opened.
RunsWriteLine ==
    /\ \E i \in DOMAIN runs :
           /\ runs[i].written < MaxRunLines
           /\ runs' = [runs EXCEPT ![i].written = @ + 1]
           /\ fs' = [fs EXCEPT ![runs[i].filename] = Append(@, i)]
    /\ UNCHANGED <<clock, spider, log, priceVars, catVars, pipeVars, crawlVars,
                   tableVars, dlVars>>

NextRuns == RunsTick \/ RunsOpenSpider \/ RunsWriteLine

SpecRuns == InitRuns /\ [][NextRuns]_vars

\* The lines of run i that its file holds.
LinesOfRun(i) == Len(SelectSeq(fs[runs[i].filename], LAMBDA w : w = i))

\* C13: the name of the export file of every run holds the name of its job
\* and the time the run started; no two runs open the same file, and the
\* file of a run holds every line the run wrote.
C13_RunsNeverShareFile ==
    /\ \A i \in DOMAIN runs :
           /\ runs[i].filename.job = runs[i].spider
           /\ runs[i].filename.timestamp = strftime(runs[i].started)
           /\ LinesOfRun(i) = runs[i].written
    /\ \A i, j \in DOMAIN runs : i # j => runs[i].filename # runs[j].filename

----------------------------------------------------------------------------
(* parse_product_detail: the specification table                           *)

\* The specification block of a page is a sequence of elements: a heading
\* element with its text nodes, or a group of rows, each row with the text
\* nodes of its key and of its value. On Startech these are the thead and
\* tbody children of the table; on Ryans the rows of a group lie under the
\* element that holds the heading before them.
Heading(texts) == [tag |-> "thead", texts |-> texts, rows |-> <<>>]
Body(rows) == [tag |-> "tbody", texts |-> <<>>, rows |-> rows]
SpecRow(key, value) == [key |-> key, value |-> value]

\* selector.get(): the first match or None (<<>> stands for None and for "").
SelGet(nodes) == IF nodes = <<>> THEN <<>> ELSE nodes[1]

\* if heading_text: current_section = clean_text(heading_text)
NextSection(current_section, heading_text) ==
    IF heading_text # <<>> THEN clean_text(heading_text) ELSE current_section

\* if current_section not in specs: specs[current_section] = {}
AddSection(specs, section) ==
    IF section \in DOMAIN specs THEN specs ELSE (section :> EmptyDict) @@ specs

\* specs[current_section][key] = value
PutPair(specs, section, key, value) ==
    LET with_section == AddSection(specs, section) IN
    [with_section EXCEPT ![section] = (key :> value) @@ @]

\* Startech: key and value of a tr.
StartechKey(row) ==
    LET key_elem == SelGet(row.key) IN
    IF key_elem # <<>> THEN clean_text(key_elem) ELSE <<>>
StartechValue(row) ==
    IF row.value # <<>> THEN clean_text(JoinWords(row.value)) ELSE <<>>

\* Ryans: key and value of a row.
RyansKey(row) == IF row.key # <<>> THEN clean_text(JoinWords(row.key)) ELSE <<>>
RyansValue(row) == IF row.value # <<>> THEN clean_text(JoinWords(row.value)) ELSE <<>>

\* Startech, the rows of one tbody.
RECURSIVE StartechBodyRows(_, _, _)
StartechBodyRows(rows, current_section, specs) ==
    IF rows = <<>> THEN specs
    ELSE LET key == StartechKey(Head(rows))
             value == StartechValue(Head(rows))
         IN  StartechBodyRows(Tail(rows), current_section,
                 IF key # <<>> /\ value # <<>>
                 THEN PutPair(specs, current_section, key, value) ELSE specs)

\* Startech, the loop over the children of the table.
RECURSIVE StartechTable(_, _, _)
StartechTable(elements, current_section, specs) ==
    IF elements = <<>> THEN specs
    ELSE LET element == Head(elements) IN
         IF element.tag = "thead"
         THEN LET heading_text == SelGet(element.texts)
                  section == NextSection(current_section, heading_text)
              IN  StartechTable(Tail(elements), section,
                      IF heading_text # <<>> THEN AddSection(specs, section) ELSE specs)
         ELSE StartechTable(Tail(elements), current_section,
                  StartechBodyRows(element.rows, current_section, specs))

\* Ryans: the rows the selector finds, each with the heading of the element
\* it lies under (heading_div), if there is one.
RECURSIVE RyansSpecRows(_, _, _)
RyansSpecRows(elements, has_heading, heading_texts) ==
    IF elements = <<>> THEN <<>>
    ELSE LET element == Head(elements) IN
         IF element.tag = "thead"
         THEN RyansSpecRows(Tail(elements), TRUE, element.texts)
         ELSE [i \in DOMAIN element.rows |->
                  [heading_div |-> has_heading, heading_texts |-> heading_texts,
                   key |-> element.rows[i].key, value |-> element.rows[i].value]]
              \o RyansSpecRows(Tail(elements), has_heading, heading_texts)

\* Ryans, the loop over spec_rows.
RECURSIVE RyansTable(_, _, _)
RyansTable(spec_rows, current_section, specs) ==
    IF spec_rows = <<>> THEN specs
    ELSE LET row == Head(spec_rows)
             heading_text == IF row.heading_div THEN SelGet(row.heading_texts) ELSE <<>>
             section == NextSection(current_section, heading_text)
             with_heading == IF heading_text # <<>> THEN AddSection(specs, section)
                             ELSE specs
             key == RyansKey(row)
             value == RyansValue(row)
         IN  RyansTable(Tail(spec_rows), section,
                 IF key # <<>> /\ value # <<>>
                 THEN PutPair(with_heading, section, key, value) ELSE with_heading)

General == <<"General">>

\* The specifications the loader gets: the dict if it is not empty, else
\* None (Ryans) or nothing (Startech).
ExtractSpecifications(sp, elements) ==
    LET specs == IF sp = "ryans_product_details"
                 THEN RyansTable(RyansSpecRows(elements, FALSE, <<>>), General, EmptyDict)
                 ELSE StartechTable(elements, General, EmptyDict)
    IN  IF DOMAIN specs # {} THEN SpecDict(specs) ELSE SpecNone

----------------------------------------------------------------------------
(* SpecTable: the extraction applied to bounded specification blocks        *)

\* The elements of the bounded blocks: the headings " General " and
\* "Display", a heading without text and one of whitespace; groups of rows
\* k1/v1 and k2/v2, of k3/v3, of k1 with another value, and of a row without
\* a key followed by a row whose value is whitespace.
TableElements ==
    {Heading(<< <<" ", "General", " ">> >>),
     Heading(<< <<"Display">> >>),
     Heading(<<>>),
     Heading(<< <<" ">> >>),
     Body(<<SpecRow(<< <<" ", "k1">> >>, << <<"v1">> >>),
            SpecRow(<< <<"k2">> >>, << <<" ">>, <<"v2", " ">> >>)>>),
     Body(<<SpecRow(<< <<"k3">> >>, << <<"v3">> >>)>>),
     Body(<<SpecRow(<< <<"k1">> >>, << <<"v9">> >>)>>),
     Body(<<SpecRow(<<>>, << <<"v1">> >>),
            SpecRow(<< <<"k2">> >>, << <<" ">> >>)>>)}

InitTable ==
    /\ spider \in ProductSpiders
    /\ table_doc \in SeqsUpTo(TableElements, MaxElements)
    /\ table_out = TablePending
    /\ log = <<>>
    /\ PriceIdle /\ CatIdle /\ PipeIdle /\ CrawlIdle /\ RunIdle /\ DlIdle

\* The specification part of parse_product_detail.
ParseSpecifications ==
    /\ table_out = TablePending
    /\ table_out' = ExtractSpecifications(spider, table_doc)
    /\ UNCHANGED <<table_doc, spider, log, priceVars, catVars, pipeVars, crawlVars,
                   runVars, dlVars>>

NextTable == ParseSpecifications

SpecTable == InitTable /\ [][NextTable]_vars

\* The rows of the block, by element and place in the element.
RowPositions ==
    {p \in (1..Len(table_doc)) \X (1..2) :
        table_doc[p[1]].tag = "tbody" /\ p[2] <= Len(table_doc[p[1]].rows)}
RowAt(p) == table_doc[p[1]].rows[p[2]]
KeyAt(p) == IF spider = "ryans_product_details" THEN RyansKey(RowAt(p))
            ELSE StartechKey(RowAt(p))
ValueAt(p) == IF spider = "ryans_product_details" THEN RyansValue(RowAt(p))
              ELSE StartechValue(RowAt(p))
\* The section of the most recent heading with text before the row.
SectionAt(p) ==
    LET hs == {h \in 1..(p[1] - 1) :
                  table_doc[h].tag = "thead" /\ SelGet(table_doc[h].texts) # <<>>}
    IN  IF hs = {} THEN General
        ELSE clean_text(SelGet(table_doc[CHOOSE h \in hs : \A g \in hs : g <= h].texts))
NonEmptyRow(p) == KeyAt(p) # <<>> /\ ValueAt(p) # <<>>
Before(p, q) == p[1] < q[1] \/ (p[1] = q[1] /\ p[2] <= q[2])
TableSpecs == IF table_out.kind = "dict" THEN table_out.val ELSE EmptyDict

ExampleBlock ==
    <<Heading(<< <<" ", "General", " ">> >>),
      Body(<<SpecRow(<< <<" ", "k1">> >>, << <<"v1">> >>),
             SpecRow(<< <<"k2">> >>, << <<" ">>, <<"v2", " ">> >>)>>),
      Heading(<< <<"Display">> >>),
      Body(<<SpecRow(<< <<"k3">> >>, << <<"v3">> >>)>>)>>
ExampleSpecs ==
    (General :> ((<<"k1">> :> <<"v1">>) @@ (<<"k2">> :> <<"v2">>)))
    @@ (<<"Display">> :> (<<"k3">> :> <<"v3">>))

\* C14: every row with a non-empty key and a non-empty value after cleanup
\* is recorded under the section of the most recent heading before it
\* ("General" when there is none yet), the last such row of a key giving its
\* value; no other pair is recorded; a General heading with two rows and a
\* Display heading with one row give {General: {k1: v1, k2: v2},
\* Display: {k3: v3}}.
C14_PairsUnderLatestHeading ==
    table_out # TablePending =>
        /\ \A p \in RowPositions : NonEmptyRow(p) =>
              /\ SectionAt(p) \in DOMAIN TableSpecs
              /\ KeyAt(p) \in DOMAIN TableSpecs[SectionAt(p)]
              /\ \E q \in RowPositions :
                    /\ NonEmptyRow(q) /\ SectionAt(q) = SectionAt(p) /\ KeyAt(q) = KeyAt(p)
                    /\ \A r \in RowPositions :
                          (NonEmptyRow(r) /\ SectionAt(r) = SectionAt(p) /\ KeyAt(r) = KeyAt(p))
                              => Before(r, q)
                    /\ TableSpecs[SectionAt(p)][KeyAt(p)] = ValueAt(q)
        /\ \A section \in DOMAIN TableSpecs : \A key \in DOMAIN TableSpecs[section] :
              \E p \in RowPositions :
                  NonEmptyRow(p) /\ SectionAt(p) = section /\ KeyAt(p) = key
        /\ table_doc = ExampleBlock => table_out = SpecDict(ExampleSpecs)

----------------------------------------------------------------------------
(* SpecCrawlFair: the crawl with an engine that keeps working               *)

\* The engine loop runs as long as something can be done: a start to make, a
\* request to download, a response or a failure to deliver, the spider to
\* close.
SpecCrawlFair == SpecCrawl /\ WF_vars(NextCrawl)

Done == pipe_pc = "closed"

\* C15: the crawl of the site, whose category B has a next link that leads
\* back to the fetched page, reaches Done, and once nothing is queued or in
\* flight no request is enqueued any more.
C15_CrawlReachesDone ==
    /\ <>Done
    /\ [][(CrawlDone \/ Done) =>
             (queue' = {} /\ inflight' = {} /\ submitted' = submitted
              /\ accepted' = accepted)]_vars

\* The crawl is over and the page of category B, whose next link leads back
\* to itself, was parsed and its next-page request submitted.
C15_Witness ==
    /\ Done
    /\ \E h \in handled :
           /\ h.req.url = CatUrl(spider, "b1") /\ h.outcome = "parsed"
           /\ \E r \in Range(parse_category(spider, h.req, PageAt(spider, h.req.url))) :
                  r.url = CatUrl(spider, "b1") /\ r \in submitted
    /\ CopiesIn(CatUrl(spider, "b1"), accepted) = 1

----------------------------------------------------------------------------
(* The category file is absent                                              *)

FileNotFoundLogged ==
    \E i \in DOMAIN log :
        log[i].level = "error" /\ log[i].what = "Category file not found"

\* C16: when the category file is absent, start_requests logs an error, no
\* request is ever enqueued and no item is produced.
C16_AbsentFileNothingFetched ==
    (~category_file.exists /\ started) =>
        /\ FileNotFoundLogged
        /\ submitted = {} /\ accepted = EmptyBag /\ queue = {} /\ inflight = {}
        /\ produced = <<>> /\ out_file = <<>>

\* The run over an absent category file has ended.
C16_Witness ==
    ~category_file.exists /\ started /\ Done /\ FileNotFoundLogged

----------------------------------------------------------------------------
(* SpecStart: start_requests over bounded category files                    *)

\* The lines of the bounded files: text that is no JSON; JSON that is no
\* object; an object without category_url; two objects with one URL and two
\* names; a third category; an object without category_name; an object
\* whose URL is on another host; one whose URL is on a host of another site
\* that holds the text of the Startech domain.
StartLines(sp) ==
    {Line("garbage", Absent, NoUrl),
     Line("array", Absent, NoUrl),
     Line("object", "A", NoUrl),
     Line("object", "A", CatUrl(sp, "a1")),
     Line("object", "Z", CatUrl(sp, "a1")),
     Line("object", "B", CatUrl(sp, "b1")),
     Line("object", Absent, CatUrl(sp, "c1")),
     Line("object", "E", Url(OtherHost, <<"category", "a1">>, "")),
     Line("object", "F", Url(LookalikeHost, <<"category", "a1">>, ""))}

InitStart ==
    /\ spider \in ProductSpiders
    /\ \E lines \in SeqsUpTo(StartLines(spider), MaxStartLines) :
           category_file = [exists |-> TRUE, lines |-> lines]
    /\ item_limit = 0
    /\ started = FALSE
    /\ queue = {}
    /\ inflight = {}
    /\ df_seen = {}
    /\ submitted = {}
    /\ handled = {}
    /\ accepted = EmptyBag
    /\ failures = 0
    /\ log = <<>>
    /\ PipeIdle /\ PriceIdle /\ RunIdle /\ TableIdle /\ DlIdle /\ CatIdle

NextStart == CrawlOpenSpider \/ CrawlStartRequests

SpecStart == InitStart /\ [][NextStart]_vars

FileLines == category_file.lines

\* A line with a category URL that passes the check of the spider.
ValidLine(i) == ValidCategoryLine(spider, FileLines[i])
\* The first line with the URL of line i.
FirstWithUrl(i) ==
    CHOOSE j \in DOMAIN FileLines :
        /\ FileLines[j].kind = "object"
        /\ FileLines[j].category_url = FileLines[i].category_url
        /\ \A k \in 1..(j - 1) :
               ~(FileLines[k].kind = "object"
                 /\ FileLines[k].category_url = FileLines[i].category_url)

\* The name a line gives: its category_name, or the line number when the
\* line has none.
NameOfLine(j) ==
    IF FileLines[j].category_name # Absent THEN FileLines[j].category_name
    ELSE UnknownCategoryLine[j]

\* C17: after start_requests, each distinct valid category URL of the file
\* has exactly one request, which the scheduler accepted once and which
\* carries the name of the first line with that URL; every request comes
\* from a valid line, so a malformed or invalid line enqueues nothing and
\* the lines after it are still processed.
C17_OneFetchPerValidUrl ==
    started =>
        /\ \A i \in DOMAIN FileLines : ValidLine(i) =>
              /\ Cardinality({r \in submitted : r.url = FileLines[i].category_url}) = 1
              /\ CopiesIn(FileLines[i].category_url, accepted) = 1
              /\ \A r \in submitted : r.url = FileLines[i].category_url =>
                     /\ r.category_name = NameOfLine(FirstWithUrl(i))
                     /\ r.callback = "parse_category"
        /\ \A r \in submitted : \E i \in DOMAIN FileLines :
              ValidLine(i) /\ r.url = FileLines[i].category_url
        /\ Cardinality(submitted) =
              Cardinality({FileLines[i].category_url : i \in {j \in DOMAIN FileLines : ValidLine(j)}})

\* A file of an unparseable line, a line with the URL of category A named
\* A, and a line with the same URL named Z: one request, named A.
C17_Witness ==
    /\ started
    /\ FileLines = <<Line("garbage", Absent, NoUrl),
                     Line("object", "A", CatUrl(spider, "a1")),
                     Line("object", "Z", CatUrl(spider, "a1"))>>
    /\ submitted = {Request(CatUrl(spider, "a1"), "parse_category", "A", 0,
                            CatUrl(spider, "a1"))}

\* start_requests logged a warning for line i.
WarningFor(i) ==
    \E k \in DOMAIN log : log[k].level = "warning" /\ log[k].fields = <<i>>

\* C18: after start_requests, every line that is a JSON object without
\* category_url or without category_name has a warning of its own and no
\* request was made from it.
C18_LinesWithoutUrlOrNameFiltered ==
    started =>
        \A i \in DOMAIN FileLines :
            (/\ FileLines[i].kind = "object"
             /\ (FileLines[i].category_url = NoUrl \/ FileLines[i].category_name = Absent))
            => /\ WarningFor(i)
               /\ ~\E r \in submitted :
                      r.url = FileLines[i].category_url /\ r.category_name = NameOfLine(i)

\* C19: after start_requests, every request goes to the host of the
\* configured site, and every line whose category_url names another host
\* has a warning.
C19_OnlySiteUrlsFetched ==
    started =>
        /\ \A r \in submitted : r.url.host = SiteHost(spider)
        /\ \A i \in DOMAIN FileLines :
              (/\ FileLines[i].kind = "object"
               /\ FileLines[i].category_url # NoUrl
               /\ FileLines[i].category_url.host # SiteHost(spider))
              => WarningFor(i)

----------------------------------------------------------------------------
(* Phase 1: uniqueness of the emitted URLs                                  *)

NoTwoWithSameUrl(items) ==
    \A i, j \in DOMAIN items : items[i].category_url = items[j].category_url => i = j

\* C20: within one run of a category spider, of either project, no two
\* items parse() yields and no two records that reach the feed have the same
\* category_url.
C20_NoTwoRecordsShareUrl ==
    cat_pc \in {"parsed", "closed"} =>
        /\ NoTwoWithSameUrl(cat_yielded)
        /\ NoTwoWithSameUrl(cat_out)

\* The Ryans spider has parsed a document in which two links with a name
\* lead to one category, and yielded one item for it.
C20_Witness ==
    /\ cat_pc = "parsed"
    /\ spider = "ryans_categories"
    /\ \E i, j \in DOMAIN seed_doc :
           /\ i < j
           /\ seed_doc[i].href = Href("", <<"category", "x">>, "none")
           /\ seed_doc[j].href = seed_doc[i].href
           /\ LoadCategoryName(seed_doc[i]) # <<>>
           /\ LoadCategoryName(seed_doc[j]) # <<>>
    /\ \E k \in DOMAIN cat_yielded :
           cat_yielded[k].category_url = Url(RyansHost, <<"category", "x">>, "")

----------------------------------------------------------------------------
(* The downloader middlewares of settings.py around one request             *)

\* What an attempt to download can meet: a response with a status, a
\* network-level exception, or the IgnoreRequest that RobotsTxtMiddleware
\* (ROBOTSTXT_OBEY = True) raises in process_request.
Statuses == {"200", "403", "404", "429", "500"}
NetworkExceptions == {"TimeoutError"}
OtherExceptions == {"IgnoreRequest"}
Signals == Statuses \cup NetworkExceptions \cup OtherExceptions

\* HTTPCACHE_IGNORE_HTTP_CODES = [500, 502, 503, 504, 522, 524, 408, 429]
HTTPCACHE_IGNORE_HTTP_CODES == {"500", "502", "503", "504", "522", "524", "408", "429"}
\* RETRY_HTTP_CODES, which settings.py leaves at Scrapy's default.
RETRY_HTTP_CODES == {"500", "502", "503", "504", "522", "524", "408", "429"}

\* CustomRetryMiddleware (540): process_response asks for a retry on 403 and
\* 429, process_exception on every exception.
CustomRetries(signal) ==
    IF signal \in Statuses THEN signal \in {"403", "429"} ELSE TRUE

\* scrapy.downloadermiddlewares.retry.RetryMiddleware (550), not disabled by
\* DOWNLOADER_MIDDLEWARES: the codes of RETRY_HTTP_CODES and the exceptions
\* of its list of network errors.
DefaultRetries(signal) ==
    IF signal \in Statuses THEN signal \in RETRY_HTTP_CODES
    ELSE signal \in NetworkExceptions

\* HttpCacheMiddleware (900) with the default DummyPolicy: every response is
\* stored unless its status is in HTTPCACHE_IGNORE_HTTP_CODES.
ShouldCache(signal) == signal \in Statuses /\ signal \notin HTTPCACHE_IGNORE_HTTP_CODES

InitDownload ==
    /\ spider \in ProductSpiders
    /\ dl_req = Request(ProdUrl(spider, "1"), "parse_product_detail", "A", 0,
                        CatUrl(spider, "a1"))
    /\ dl_pc = "pending"
    /\ cache = "none"
    /\ attempts = <<>>
    /\ log = <<>>
    /\ PriceIdle /\ CatIdle /\ PipeIdle /\ CrawlIdle /\ RunIdle /\ TableIdle

\* One pass of the request through the middlewares. RobotsTxtMiddleware
\* (100) comes before the cache; a stored response (HTTPCACHE_EXPIRATION_SECS
\* = 0: it never expires) is returned by HttpCacheMiddleware.process_request
\* in place of a download, and goes through every process_response like a
\* downloaded one. The retry is a copy of the request (RetryRequest), with
\* the same cache key.
DlAttempt ==
    /\ dl_pc = "pending"
    /\ \E answer \in Signals :
           LET from_cache == answer # "IgnoreRequest" /\ cache # "none"
               signal == IF from_cache THEN cache ELSE answer
               retry == (DefaultRetries(signal) \/ CustomRetries(signal))
                            /\ RetryAllowed(dl_req)
           IN  /\ cache' = IF ~from_cache /\ ShouldCache(signal) THEN signal ELSE cache
               /\ attempts' = Append(attempts,
                                  [signal |-> signal, cached |-> from_cache,
                                   retry_times |-> dl_req.retry_times, retried |-> retry])
               /\ dl_req' = IF retry THEN RetryRequest(dl_req) ELSE dl_req
               /\ dl_pc' = IF retry THEN "pending"
                           ELSE IF signal = "200" THEN "callback" ELSE "errback"
    /\ UNCHANGED <<spider, log, priceVars, catVars, pipeVars, crawlVars, runVars,
                   tableVars>>

NextDownload == DlAttempt

SpecDownload == InitDownload /\ [][NextDownload]_vars

\* C21: an attempt is followed by a retry only if it met status 403, status
\* 429 or a network-level exception; every other failure ends the request.
C21_RetryOnlyOnTransient ==
    \A i \in DOMAIN attempts :
        attempts[i].retried => attempts[i].signal \in {"403", "429"} \cup NetworkExceptions

\* C29: the attempt that follows a retry for status 403 or 429 is a download
\* and not an answer of the cache, and the cache never holds a response with
\* status 403 or 429.
C29_RetryNotAnsweredFromCache ==
    /\ \A i \in DOMAIN attempts :
           (i > 1 /\ attempts[i - 1].retried /\ attempts[i - 1].signal \in {"403", "429"})
               => ~attempts[i].cached
    /\ cache \notin {"403", "429"}

----------------------------------------------------------------------------
(* SpecCrawlUnopened: the crawl when the export file cannot be opened       *)

\* open_spider fails: the directory cannot be made or the file cannot be
\* opened. The pipeline logs the error and returns; nothing is raised.
CrawlOpenSpiderFails ==
    /\ \E outcome \in {"dir_error", "open_error"} : OpenSpider(outcome)
    /\ UNCHANGED <<spider, priceVars, runVars, tableVars, dlVars, catVars, crawlVars>>

NextCrawlUnopened ==
    \/ CrawlOpenSpiderFails
    \/ CrawlStartRequests
    \/ Download
    \/ CategoryResponse
    \/ ProductResponse
    \/ CrawlCloseSpider

SpecCrawlUnopened == InitCrawl /\ [][NextCrawlUnopened]_vars

OpenErrorLogged ==
    \E i \in DOMAIN log :
        log[i].level = "error" /\ log[i].by = "JsonLinesExportPipeline"
            /\ log[i].what \in {"dir_error", "open_error"}

\* C22: when the output directory or the output file could not be opened at
\* the start of the run, an error is logged, no request is ever submitted or
\* downloaded, and the run produces no item and no line.
C22_UnopenedOutputAbortsRun ==
    (pipe_pc # "init" /\ file_handle = "None" /\ OpenErrorLogged) =>
        /\ submitted = {} /\ accepted = EmptyBag /\ inflight = {} /\ handled = {}
        /\ produced = <<>> /\ out_file = <<>>

----------------------------------------------------------------------------
(* SpecCeiling: the crawl under CLOSESPIDER_ITEMCOUNT, several requests     *)
(* downloading at once                                                      *)

MaxConcurrent == 2   \* most requests downloading at once (CONCURRENT_REQUESTS)
MaxCeiling == 2      \* largest CLOSESPIDER_ITEMCOUNT of the bounded runs

\* The items that passed every pipeline (the item_scraped signal): a dropped
\* item does not count.
ItemScrapedCount ==
    Cardinality({i \in DOMAIN produced : produced[i].fate = "forwarded"})

\* The CloseSpider extension calls engine.close_spider when the count of
\* scraped items reaches CLOSESPIDER_ITEMCOUNT; the engine's slot is closing
\* from then on.
Closing == item_limit > 0 /\ ItemScrapedCount >= item_limit

\* A back-out test that looks at the free download slots only.
NeedsBackout_slots_only == Cardinality(inflight) >= MaxConcurrent
\* The engine takes no request from the scheduler while the slot is closing
\* or the downloader is full.
NeedsBackout == Closing \/ Cardinality(inflight) >= MaxConcurrent

InitCeiling ==
    /\ spider \in ProductSpiders
    /\ category_file = [exists |-> TRUE,
                        lines |-> <<Line("object", "A", CatUrl(spider, "a1")),
                                    Line("object", "B", CatUrl(spider, "b1"))>>]
    /\ item_limit \in 1..MaxCeiling
    /\ started = FALSE
    /\ queue = {}
    /\ inflight = {}
    /\ df_seen = {}
    /\ submitted = {}
    /\ handled = {}
    /\ accepted = EmptyBag
    /\ failures = 0
    /\ log = <<>>
    /\ PipeIdle /\ PriceIdle /\ RunIdle /\ TableIdle /\ DlIdle /\ CatIdle

CeilingDownload ==
    /\ ~NeedsBackout
    /\ \E req \in queue :
           /\ queue' = queue \ {req}
           /\ inflight' = inflight \cup {req}
    /\ UNCHANGED <<spider, category_file, item_limit, started, df_seen, submitted, handled, log,
                   accepted, failures, priceVars, runVars, tableVars, dlVars, catVars, pipeVars>>

\* The spider closes when nothing is in progress and either the scheduler
\* is empty or the slot is closing; requests left in the scheduler are
\* never downloaded.
CeilingCloseSpider ==
    /\ started /\ inflight = {}
    /\ queue = {} \/ Closing
    /\ CloseSpider
    /\ UNCHANGED <<spider, priceVars, runVars, tableVars, dlVars, catVars, crawlVars>>

NextCeiling ==
    \/ CrawlOpenSpider
    \/ CeilingCloseSpider
    \/ CeilingDownload
    \/ CategoryResponse
    \/ ProductResponse
    \/ CrawlStartRequests

SpecCeiling == InitCeiling /\ [][NextCeiling]_vars
SpecCeilingFair == SpecCeiling /\ WF_vars(NextCeiling)

----------------------------------------------------------------------------
(* SpecInFlight: product fetches in flight at once, completing in any order *)

\* The items of the fetches: two different valid records of one URL, a
\* record of that URL without a price, and a record of a second URL.
InFlightItems(sp) ==
    {ProductItem(sp, "N", Float(5, 0), ItemUrl1, "C", "In Stock", "B", SomeSpecs, "Cat"),
     ProductItem(sp, "N", Float(5, 0), ItemUrl1, "C", "In Stock", "B", SpecNone, "Cat"),
     ProductItem(sp, "N", NoneFloat, ItemUrl1, "C", "In Stock", "B", SomeSpecs, "Cat"),
     ProductItem(sp, "N", Float(5, 0), ItemUrl2, "C", "In Stock", "B", SpecDict(EmptyDict), "Cat")}

InitInFlight ==
    /\ spider \in ProductSpiders
    /\ category_file = [exists |-> FALSE, lines |-> <<>>]
    /\ item_limit = 0
    /\ started = TRUE
    /\ queue = {}
    /\ inflight = {}
    /\ df_seen = {}
    /\ submitted = {}
    /\ handled = {}
    /\ accepted = EmptyBag
    /\ failures = 0
    /\ log = <<>>
    /\ PipeIdle /\ PriceIdle /\ RunIdle /\ TableIdle /\ DlIdle /\ CatIdle

\* A product fetch starts; n is the order of the starts, item the record the
\* page will give.
FetchStarts ==
    /\ pipe_pc = "running"
    /\ Cardinality(inflight) < MaxConcurrent
    /\ Cardinality(submitted) < MaxItems
    /\ \E item \in InFlightItems(spider) :
       \E f \in {[n |-> Cardinality(submitted) + 1, item |-> item]} :
           /\ submitted' = submitted \cup {f}
           /\ inflight' = inflight \cup {f}
    /\ UNCHANGED <<spider, category_file, item_limit, started, queue, df_seen, handled, log,
                   accepted, failures, priceVars, runVars, tableVars, dlVars, catVars, pipeVars>>

\* The response of any fetch in flight arrives: the callback runs and its
\* item goes through process_item of the three pipelines, which are plain
\* synchronous methods: nothing else runs until the last of them returns.
FetchCompletes ==
    /\ \E f \in inflight, write_ok \in BOOLEAN :
           /\ inflight' = inflight \ {f}
           /\ ProcessItem(f.item, write_ok, FALSE)
    /\ UNCHANGED <<spider, category_file, item_limit, started, queue, df_seen, submitted,
                   handled, accepted, failures, priceVars, runVars, tableVars, dlVars, catVars>>

InFlightCloseSpider ==
    /\ inflight = {}
    /\ CloseSpider
    /\ UNCHANGED <<spider, priceVars, runVars, tableVars, dlVars, catVars, crawlVars>>

NextInFlight ==
    \/ CrawlOpenSpider
    \/ InFlightCloseSpider
    \/ FetchStarts
    \/ FetchCompletes

SpecInFlight == InitInFlight /\ [][NextInFlight]_vars

\* The key of a record as the duplicate filter stores it.
SeenKey(item) == <<DUPLICATE_KEY_FIELD_MAP[spider], KeyOf(spider, item)>>

\* One record went through the pipelines in this step, whole: the key set
\* was tested and extended, and at most the one complete line of the record
\* was appended.
WholeRecordStep ==
    LET p == produced'[Len(produced')] IN
    /\ produced' = Append(produced, p)
    /\ (p.fate = "duplicate") = (SeenKey(p.item) \in keys_seen)
    /\ keys_seen' = keys_seen \cup {SeenKey(p.item)}
    /\ \/ out_file' = out_file
       \/ p.fate = "forwarded" /\ out_file' = Append(out_file, json_dumps(p.out))

\* C24: in whatever order the fetches in flight complete, the duplicate
\* test and insert, the validation and the write of one record happen in
\* one step; between such steps the key set and the file do not change; the
\* file never holds two lines with one key, and every line is the complete
\* line of one forwarded record.
C24_RecordStepsUninterrupted ==
    /\ [][IF produced' # produced THEN WholeRecordStep
          ELSE keys_seen' = keys_seen /\ out_file' = out_file]_vars
    /\ [](\A a, b \in DOMAIN out_file : a # b => out_file[a].url # out_file[b].url)
    /\ [](\A k \in DOMAIN out_file :
             \E i \in DOMAIN produced :
                 produced[i].fate = "forwarded" /\ out_file[k] = json_dumps(produced[i].out))

\* Two fetches of one URL with different records were in flight together and
\* completed in the order opposite to their starts: the one that completed
\* first was written, the other dropped as a duplicate.
C24_Witness ==
    /\ Len(produced) >= 2 /\ Len(out_file) = 1
    /\ produced[1].fate = "forwarded" /\ produced[2].fate = "duplicate"
    /\ produced[1].item # produced[2].item
    /\ [n |-> 2, item |-> produced[1].item] \in submitted
    /\ [n |-> 1, item |-> produced[2].item] \in submitted
    /\ out_file[1] = json_dumps(produced[1].out)

----------------------------------------------------------------------------
(* One record per fetched product page                                      *)

\* The records handed to the pipelines for the page at url.
RecordsOf(url) == {i \in DOMAIN produced : produced[i].item.url = url}

\* C25: every product page that was fetched successfully (its callback ran
\* on the response) gave exactly one record to the pipelines, whether or not
\* the page has a specification table or a description section.
C25_OneRecordPerProductPage ==
    \A h \in handled :
        (h.req.callback = "parse_product_detail" /\ h.outcome # "failed") =>
            /\ h.outcome = "parsed"
            /\ Cardinality(RecordsOf(h.req.url)) = 1

----------------------------------------------------------------------------
(* Validation and the duplicate filter, in the order of ITEM_PIPELINES      *)

\* C26: for a product spider, when a record of a URL passes the essential
\* validation then a record of that URL is forwarded to the sink; and a
\* record is dropped as a duplicate only when an earlier record with its key
\* was forwarded (a record that validation drops does not use up the key).
C26_ValidRecordOfUrlForwarded ==
    spider \in ProductSpiders =>
        /\ \A i \in DOMAIN produced :
               (produced[i].key # NoUrl /\ FailingFields(spider, produced[i].item) = {}) =>
                   \E j \in DOMAIN produced :
                       produced[j].key = produced[i].key /\ produced[j].fate = "forwarded"
        /\ \A i \in DOMAIN produced :
               produced[i].fate = "duplicate" =>
                   \E j \in 1..(i - 1) :
                       produced[j].key = produced[i].key /\ produced[j].fate = "forwarded"

----------------------------------------------------------------------------
(* The sections of the specifications of a record                           *)

\* A complete record with the specifications extracted from the block, and
\* its specifications after RequiredFieldsPipeline.
TableRecord ==
    ProductItem(spider, "N", Float(5, 0), ItemUrl1, "C", "In Stock", "B", table_out, "Cat")
SinkSpecifications == RequiredFields_process_item(spider, TableRecord).item.specifications

\* C27: when the specifications of a record are a mapping, every section of
\* it holds at least one pair (a heading followed by no recordable row makes
\* no section), and a block with headings but no recordable row gives
\* specifications that are absent.
C27_NoEmptySection ==
    table_out # TablePending =>
        /\ SinkSpecifications.kind = "dict" =>
               \A section \in DOMAIN SinkSpecifications.val :
                   DOMAIN SinkSpecifications.val[section] # {}
        /\ (\A p \in RowPositions : ~NonEmptyRow(p)) => SinkSpecifications = SpecNone

----------------------------------------------------------------------------
(* SpecSink: process_item of the export pipeline before, between and after  *)
(* open_spider and close_spider                                             *)

InitSink ==
    /\ spider \in ProductSpiders
    /\ log = <<>>
    /\ PipeIdle /\ PriceIdle /\ RunIdle /\ TableIdle /\ DlIdle /\ CatIdle /\ CrawlIdle

\* process_item on the pipeline objects, whether the spider is open or
\* closed.
SinkProcessItem ==
    /\ pipe_pc \in {"running", "closed"}
    /\ Len(produced) < MaxItems
    /\ \E item \in StreamItems(spider), write_ok \in BOOLEAN :
           ProcessItem(item, write_ok, FALSE)
    /\ UNCHANGED <<spider, priceVars, runVars, tableVars, dlVars, catVars, crawlVars>>

NextSink == PipeOpenSpider \/ SinkProcessItem \/ PipeCloseSpider

SpecSink == InitSink /\ [][NextSink]_vars

\* An error record of the export pipeline about the item.
ExportErrors(l) ==
    SelectSeq(l, LAMBDA rec : rec.level = "error" /\ rec.by = "JsonLinesExportPipeline"
                                  /\ rec.what \in {"serialize failed", "write failed"})

\* process_item ran on a file that is not open: nothing is written or
\* counted, no error is met, and the item comes back as it went in.
UnopenedStep ==
    LET p == produced'[Len(produced')] IN
    /\ out_file' = out_file
    /\ items_written' = items_written
    /\ ExportErrors(log') = ExportErrors(log)
    /\ p.fate = "forwarded" => p.out = RequiredFields_process_item(spider, p.item).item

\* C28: the file is written only between a successful open_spider and the
\* close_spider after it; when the file could not be opened, or after
\* close_spider, process_item writes nothing, fails with nothing and returns
\* the item unchanged; while the file is open items_written is the number
\* of lines appended in the run.
C28_SinkWrittenOnlyWhileOpen ==
    /\ [][out_file' # out_file =>
              file_handle = "open" /\ file_handle' = "open" /\ pipe_pc = "running"]_vars
    /\ [][(produced' # produced /\ file_handle # "open") => UnopenedStep]_vars
    /\ [](file_handle = "open" => items_written = Len(out_file))

\* Two records of different URLs, both complete and serializable: the first
\* was written while the file was open, the second came after close_spider
\* and left no line, no warning and no error.
C28_Witness ==
    /\ pipe_pc = "closed" /\ Len(produced) = 2 /\ Len(out_file) = 1
    /\ produced[1].fate = "forwarded" /\ produced[2].fate = "forwarded"
    /\ produced[1].key # produced[2].key
    /\ Serializable(produced[2].out)
    /\ out_file[1] = json_dumps(produced[1].out)
    /\ \A i \in DOMAIN log : log[i].by # "JsonLinesExportPipeline"

----------------------------------------------------------------------------
(* SpecRound: the category file of Phase 1 read by Phase 2 of the same site *)

\* The hrefs of the navigation links: two category paths, a brand page of
\* the site, the home page, and a category page of another site.
RoundHrefs ==
    {Href("", <<"category", "x">>, "none"), Href("", <<"category", "y">>, "none"),
     Href("", <<"brand", "z">>, "none"), Href("", <<"">>, "none"),
     Href(OtherHost, <<"category", "x">>, "none")}

RoundLinks == {Link(h, << <<" ", "X", " ">> >>) : h \in RoundHrefs}

\* The product spider that reads the file a category spider wrote.
ProductSpiderOf(sp) ==
    IF sp = "ryans_categories" THEN "ryans_product_details" ELSE "startech_product_details"

\* json.dumps of the name in the feed and json.loads in start_requests: the
\* characters of the name as one text.
RECURSIVE NameText(_)
NameText(chars) == IF chars = <<>> THEN "" ELSE Head(chars) \o NameText(Tail(chars))

\* The line of the category file that the feed writes for an item, as
\* json.loads gives it back.
FeedLine(item) == Line("object", NameText(item.category_name), item.category_url)

InitRound ==
    /\ spider \in CategorySpiders
    /\ seed_doc \in SeqsUpTo(RoundLinks, MaxLinks)
    /\ cat_run = 0
    /\ cat_pc = "init"
    /\ seen_urls = {}
    /\ cat_yielded = <<>>
    /\ cat_out = <<>>
    /\ cat_prev = {}
    /\ log = <<>>
    /\ PriceIdle /\ RunIdle /\ TableIdle /\ DlIdle /\ PipeIdle /\ CrawlIdle

\* Phase 1: parse(response) on the seed document; the feed writes the
\* category file.
RoundPhase1 ==
    /\ cat_pc = "init"
    /\ \E r \in {ParseLinks(spider, seed_doc, start_url(spider), {}, <<>>)} :
       \E f \in {FeedItems(spider, r.yielded, {}, <<>>)} :
           /\ seen_urls' = r.seen
           /\ cat_yielded' = r.yielded
           /\ keys_seen' = f.keys
           /\ cat_out' = f.fed
           /\ category_file' = [exists |-> TRUE,
                                lines |-> [i \in DOMAIN f.fed |-> FeedLine(f.fed[i])]]
    /\ cat_run' = 1
    /\ cat_pc' = "closed"
    /\ UNCHANGED <<spider, seed_doc, cat_prev, log, priceVars, runVars, tableVars, dlVars,
                   item_limit, started, queue, inflight, df_seen, submitted, handled,
                   accepted, failures, file_handle, filename, items_written, out_file,
                   disk_lines, produced, pipe_pc>>

\* Phase 2: start_requests of the product spider of the site over the file.
RoundPhase2 ==
    /\ cat_pc = "closed"
    /\ ~started
    /\ started' = TRUE
    /\ \E r \in {StartRequests(ProductSpiderOf(spider), category_file.lines, 1, {}, <<>>, <<>>)} :
       \E e \in {Enqueue(r.reqs, SpiderDontFilter, queue, df_seen)} :
           /\ queue' = e.queue
           /\ df_seen' = e.seen
           /\ submitted' = submitted \cup Range(r.reqs)
           /\ accepted' = accepted (+) e.accepted
           /\ log' = log \o r.log
    /\ UNCHANGED <<spider, category_file, item_limit, inflight, handled, failures,
                   priceVars, runVars, tableVars, dlVars, catVars, pipeVars>>

NextRound == RoundPhase1 \/ RoundPhase2 \/ Download

SpecRound == InitRound /\ [][NextRound]_vars

\* C30: every CategoryRecord that the category phase of a site emitted is
\* accepted by the line filter of the product phase of the same site and
\* leads to a fetch of its category URL.
C30_Phase1OutputAcceptedByPhase2 ==
    started =>
        \A i \in DOMAIN cat_out :
            /\ ValidCategoryLine(ProductSpiderOf(spider), FeedLine(cat_out[i]))
            /\ \E req \in submitted :
                   /\ req.url = cat_out[i].category_url
                   /\ req.callback = "parse_category"
                   /\ req \in queue \cup inflight

====
